---- MODULE Spec2Model ----
(***************************************************************************)
(* The partner tree of the compensation-plan simulator                     *)
(* (src/src/models/structure.py): the id -> Partner map owned by           *)
(* NetworkStructure, the recursive aggregations over it, the qualification *)
(* scan of Partner.update_qualification against the tier table of          *)
(* src/src/utils/constants.py, and the tree-building helpers of            *)
(* src/src/models/optimizer.py that call them.                             *)
(*                                                                         *)
(* The networkx graph kept next to the map (self.network) receives the     *)
(* same node and edge as the map on every add_partner and is read only by  *)
(* the charting layer; it is not carried as a separate variable.           *)
(*                                                                         *)
(* Specifications:                                                         *)
(*   Spec      the tree grown by add_partner, volumes rewritten            *)
(*   SpecPass  the same with update_qualifications passes, smaller tree    *)
(*   SpecM3    the optimizer's M3 scaffold and passes over it              *)
(*   SpecQual  update_qualification called directly on one Partner         *)
(*   SpecWindow    passes without end over a root and one child            *)
(*   SpecKit       starter kits bought while the clock runs                *)
(*   SpecSnap      snapshots taken between the operations of a small tree  *)
(*   SpecScore     the vulnerability score of any detector results         *)
(*   SpecScenario  ScenarioAnalyzer.analyze_scenario on a grown tree       *)
(*   SpecMentor    monthly passes and income calls over the M3 scaffold    *)
(*   SpecOptimize  UserOptimizer.optimize_for_profit, step by step         *)
(*   SpecLedger    one Partner through compression and recovery            *)
(*   SpecRecovery  one Partner under the three recovery programs           *)
(*   SpecGenerate  ScenarioAnalyzer.generate_scenarios, one scenario a step *)
(***************************************************************************)
EXTENDS Integers, Sequences, FiniteSets, TLC

VARIABLES
    partners,   \* NetworkStructure.partners: id -> Partner record
    next_id,    \* NetworkStructure.next_id: the id allocator
    now,        \* the wall clock read by datetime.now()
    err,        \* how the last call ended: "ok" or the exception it raised
    args,       \* the (go, active_partners, side_volume) of the last direct
                \* update_qualification call, <<>> before the first one; in
                \* SpecScore the detector results handed to the score
    total_pv,   \* NetworkStructure.total_pv: the volume budget
    history,    \* NetworkStructure.history: the list of NetworkSnapshot
    result,     \* the last call that returned a value, and the value
    run         \* the optimize_for_profit call in progress: its arguments,
                \* its locals and the stage and step it has reached

vars == <<partners, next_id, now, err, args, total_pv, history, result, run>>

-----------------------------------------------------------------------------
(* Bounds of the model.                                                    *)

MaxPartners == 4    \* Spec: add_partner stops once next_id reaches this
MaxFamily == 2      \* SpecPass: add_partner stops once next_id reaches this
MaxScaffold == 5    \* _build_m3_structure runs while its partners fit below this
MaxPasses == 2      \* update_qualifications passes over one tree
MaxTime == 1        \* ticks of the wall clock
MaxChanges == 2     \* tier changes of the single partner of SpecQual

\* Personal volumes handed to add_partner and written to Partner.pv: one
\* below the compression threshold, one above the recovery volume.
Vols == {49, 800}

-----------------------------------------------------------------------------
(* Configuration tables (src/src/utils/constants.py).                      *)

None == -1                      \* Python None in an id- or date-valued field
Idle == [stage |-> 0, step |-> "done"]  \* no optimize_for_profit call runs
NoResult == [call |-> "none"]   \* no call has returned a value yet
root_id == 0                    \* NetworkStructure.root_id
current_date == 0               \* NetworkStructure.current_date, fixed at construction
COMPRESSION_THRESHOLD == 50
WINDOW == 12                    \* history window of add_*_record

Tier(n, pv, go, ps, sv, m3, b3) ==
    [name |-> n, min_pv |-> pv, min_go |-> go, min_partners |-> ps,
     side_volume |-> sv, required_m3 |-> m3, required_b3 |-> b3]

\* QUALIFICATIONS in declaration (= dict iteration) order; an absent
\* required_m3 / required_b3 key is 0.
QUALIFICATIONS ==
    << Tier("NONE", 0,  0,       0,  0,      0, 0),
       Tier("M1",   50, 750,     2,  0,      0, 0),
       Tier("M2",   50, 1500,    3,  0,      0, 0),
       Tier("M3",   50, 3000,    4,  0,      0, 0),
       Tier("B1",   50, 5500,    5,  2500,   1, 0),
       Tier("B2",   50, 8000,    6,  2000,   2, 0),
       Tier("B3",   50, 10000,   7,  1000,   3, 0),
       Tier("TOP",  50, 16000,   8,  1000,   5, 0),
       Tier("TOP1", 50, 23000,   9,  1000,   4, 1),
       Tier("TOP2", 50, 30000,   10, 1000,   3, 2),
       Tier("TOP3", 50, 37000,   11, 1000,   2, 3),
       Tier("TOP4", 50, 44000,   12, 1000,   1, 4),
       Tier("TOP5", 50, 51000,   13, 1000,   0, 5),
       Tier("AC1",  50, 200000,  15, 100000, 0, 0),
       Tier("AC2",  50, 350000,  17, 100000, 0, 0),
       Tier("AC3",  50, 500000,  20, 200000, 0, 0),
       Tier("AC4",  50, 1000000, 25, 350000, 0, 0),
       Tier("AC5",  50, 2500000, 30, 500000, 0, 0),
       Tier("AC6",  50, 5000000, 35, 500000, 0, 0) >>

RegionCodes == {"RU", "KZ", "UZ", "KG"}

\* REGIONS[r]['qualification_adjustments']: tier name -> replaced min_go
qualification_adjustments ==
    [r \in RegionCodes |->
        CASE r = "RU" -> [q \in {"M1", "M2", "M3"} |->
                            IF q = "M1" THEN 600 ELSE IF q = "M2" THEN 1200 ELSE 2400]
          [] r = "KZ" -> [q \in {"M1", "M2", "M3"} |->
                            IF q = "M1" THEN 650 ELSE IF q = "M2" THEN 1300 ELSE 2600]
          [] OTHER    -> [q \in {"M1", "M2", "M3"} |->
                            IF q = "M1" THEN 500 ELSE IF q = "M2" THEN 1000 ELSE 2000]]

\* COMPRESSION_RULES[rule]['min_recovery_pv'] for the rule the region selects
\* (Partner.get_compression_rule): SOFT for UZ/KG, STRICT for RU/KZ.
min_recovery_pv ==
    [r \in RegionCodes |-> IF r \in {"UZ", "KG"} THEN 50 ELSE 100]

-----------------------------------------------------------------------------
(* Partner (structure.py:15-52).                                           *)

Partner(id, pv, region) ==
    [id |-> id, pv |-> pv, qualification |-> "NONE", active |-> TRUE,
     upline_id |-> None, downline_ids |-> <<>>, region |-> region,
     volume_history |-> <<>>, qualification_history |-> <<>>,
     mentorship_bonuses_received |-> {},
     starter_kit |-> "None", privileges |-> {}, privilege_expiry |-> <<>>,
     compression_warnings |-> <<>>, compression_history |-> <<>>,
     recovery_status |-> "None", recovery_bonus_expiry |-> None,
     last_compression_date |-> None, warning_notifications |-> {}]

\* Partner.add_volume_record: append, then drop the oldest past the window
add_volume_record(p, date, pv, go) ==
    LET h == Append(p.volume_history, <<date, pv, go>>)
    IN  [p EXCEPT !.volume_history = IF Len(h) > WINDOW THEN Tail(h) ELSE h]

\* past the window the newest record is dropped instead of the oldest
add_qualification_record_keeps_oldest(p, date, qualification) ==
    LET h == Append(p.qualification_history, <<date, qualification>>)
    IN  [p EXCEPT !.qualification_history =
            IF Len(h) > WINDOW THEN SubSeq(h, 1, WINDOW) ELSE h]

\* Partner.add_qualification_record
add_qualification_record(p, date, qualification) ==
    LET h == Append(p.qualification_history, <<date, qualification>>)
    IN  [p EXCEPT !.qualification_history = IF Len(h) > WINDOW THEN Tail(h) ELSE h]

\* Partner.is_compressed
is_compressed(p) == p.pv < COMPRESSION_THRESHOLD

-----------------------------------------------------------------------------
(* Partner.purchase_starter_kit (structure.py:225-244).                    *)

Kit(price, pv, privileges) ==
    [price |-> price, pv |-> pv, privileges |-> privileges]

STARTER_KITS ==
    [k \in {"START", "START_PLUS", "BUSINESS", "VIP"} |->
        CASE k = "START" -> Kit(100, 70, <<"personal_discount">>)
          [] k = "START_PLUS" ->
                Kit(200, 140, <<"personal_discount", "training_access">>)
          [] k = "BUSINESS" ->
                Kit(500, 200, <<"personal_discount", "training_access",
                                "business_tools">>)
          [] OTHER ->
                Kit(1000, 300, <<"personal_discount", "training_access",
                                 "business_tools", "mentorship">>)]

\* STARTER_KIT_PRIVILEGES[privilege]['duration'], in days, of the
\* privileges that have one
privilege_duration ==
    [privilege \in {"training_access", "mentorship"} |->
        IF privilege = "training_access" THEN 30 ELSE 90]

\* a purchase is accepted whatever kit the partner already holds
kit_available_again(p, kit_type) == kit_type \in DOMAIN STARTER_KITS

\* the negation of the guard of purchase_starter_kit
kit_available(p, kit_type) ==
    kit_type \in DOMAIN STARTER_KITS /\ p.starter_kit = "None"

\* purchase_starter_kit(kit_type) at time date: the partner it leaves and
\* the value it returns
purchase_starter_kit(p, kit_type, date) ==
    IF ~kit_available(p, kit_type) THEN [partner |-> p, success |-> FALSE]
    ELSE LET kit == STARTER_KITS[kit_type]
             granted == {kit.privileges[i] : i \in 1..Len(kit.privileges)}
             timed == granted \cap DOMAIN privilege_duration
         IN  [partner |->
                 [p EXCEPT
                    !.starter_kit = kit_type,
                    !.pv = @ + kit.pv,
                    !.privileges = @ \cup granted,
                    !.privilege_expiry =
                        [privilege \in DOMAIN @ \cup timed |->
                            IF privilege \in timed
                            THEN date + privilege_duration[privilege]
                            ELSE @[privilege]]],
              success |-> TRUE]

PurchaseStarterKit(partner_id, kit_type) ==
    /\ partner_id \in DOMAIN partners
    /\ LET r == purchase_starter_kit(partners[partner_id], kit_type, now)
       IN  /\ partners' = [partners EXCEPT ![partner_id] = r.partner]
           /\ result' = [call |-> "purchase_starter_kit",
                         partner_id |-> partner_id, kit_type |-> kit_type,
                         value |-> r.success]
    /\ err' = "ok"
    /\ UNCHANGED <<next_id, now, args, total_pv, history, run>>

-----------------------------------------------------------------------------
(* Partner.update_qualification (structure.py:199-219).                    *)

\* requirements.copy() updated with the region's adjustment for the tier
adjusted_requirements(region, requirements) ==
    IF requirements.name \in DOMAIN qualification_adjustments[region]
    THEN [requirements EXCEPT
            !.min_go = qualification_adjustments[region][requirements.name]]
    ELSE requirements

\* the comparison direction of side_volume reversed
meets_requirements_side_reversed(requirements, go, active_partners, side_volume) ==
    /\ go >= requirements.min_go
    /\ active_partners >= requirements.min_partners
    /\ side_volume <= requirements.side_volume

\* the condition of the if inside the loop (structure.py:212-214)
meets_requirements(requirements, go, active_partners, side_volume) ==
    /\ go >= requirements.min_go
    /\ active_partners >= requirements.min_partners
    /\ side_volume >= requirements.side_volume

\* the loop leaves at the first tier whose requirements are met
RECURSIVE scan_qualifications_first_match(_, _, _, _, _, _)
scan_qualifications_first_match(i, qualification, region, go, active_partners, side_volume) ==
    IF i > Len(QUALIFICATIONS) THEN qualification
    ELSE IF meets_requirements(adjusted_requirements(region, QUALIFICATIONS[i]),
                               go, active_partners, side_volume)
         THEN QUALIFICATIONS[i].name
         ELSE scan_qualifications_first_match(i + 1, qualification, region,
                                              go, active_partners, side_volume)

\* the for loop over QUALIFICATIONS.items() from its i-th entry on:
\* self.qualification is overwritten by every tier whose requirements are met
RECURSIVE scan_qualifications(_, _, _, _, _, _)
scan_qualifications(i, qualification, region, go, active_partners, side_volume) ==
    IF i > Len(QUALIFICATIONS) THEN qualification
    ELSE CHOOSE last \in
            {scan_qualifications(i + 1, assigned, region, go, active_partners,
                                 side_volume) :
                assigned \in
                    {IF meets_requirements(
                            adjusted_requirements(region, QUALIFICATIONS[i]),
                            go, active_partners, side_volume)
                     THEN QUALIFICATIONS[i].name ELSE qualification}} : TRUE

update_qualification(p, go, active_partners, side_volume, date) ==
    LET qualification == scan_qualifications(1, p.qualification, p.region,
                                             go, active_partners, side_volume)
    IN  IF p.qualification # qualification
        THEN add_qualification_record([p EXCEPT !.qualification = qualification],
                                      date, qualification)
        ELSE p

-----------------------------------------------------------------------------
(* Recursive aggregation (structure.py:424-454).                           *)

\* sum(...) and max(...) of the elements first..last of a sequence, the
\* range halved
RECURSIVE SumBetween(_, _, _)
SumBetween(s, first, last) ==
    IF first > last THEN 0
    ELSE IF first = last THEN s[first]
    ELSE SumBetween(s, first, (first + last) \div 2) +
         SumBetween(s, (first + last) \div 2 + 1, last)

SeqSum(s) == SumBetween(s, 1, Len(s))

RECURSIVE MaxBetween(_, _, _)
MaxBetween(s, first, last) ==
    IF first = last THEN s[first]
    ELSE CHOOSE largest \in
            {IF pair[1] > pair[2] THEN pair[1] ELSE pair[2] :
                pair \in {<<MaxBetween(s, first, (first + last) \div 2),
                            MaxBetween(s, (first + last) \div 2 + 1, last)>>}} :
            TRUE

SeqMax(s) == MaxBetween(s, 1, Len(s))

\* A chain of calls longer than the number of records runs round a cycle of
\* downline links and never returns: Python ends it with RecursionError.
recursion_limit(ps) == Cardinality(DOMAIN ps)

\* the recursion descends into compressed children as well
RECURSIVE group_volume_unshielded(_, _, _)
group_volume_unshielded(ps, partner_id, depth) ==
    LET partner == ps[partner_id]
        ds == partner.downline_ids
    IN  partner.pv +
        SeqSum([i \in 1..Len(ds) |->
                  IF depth = 0 THEN 0
                  ELSE group_volume_unshielded(ps, ds[i], depth - 1)])

\* NetworkStructure.calculate_group_volume, depth calls away from the limit
RECURSIVE group_volume(_, _, _)
group_volume(ps, partner_id, depth) ==
    LET partner == ps[partner_id]
        ds == partner.downline_ids
    IN  partner.pv +
        SeqSum([i \in 1..Len(ds) |->
                  IF is_compressed(ps[ds[i]]) \/ depth = 0 THEN 0
                  ELSE group_volume(ps, ds[i], depth - 1)])

calculate_group_volume(ps, partner_id) ==
    group_volume(ps, partner_id, recursion_limit(ps))

\* the recursion of calculate_group_volume / calculate_active_partners from
\* partner_id does not return
RECURSIVE exceeds_recursion_limit(_, _, _)
exceeds_recursion_limit(ps, partner_id, depth) ==
    LET ds == ps[partner_id].downline_ids
    IN  \E i \in 1..Len(ds) :
            /\ ~is_compressed(ps[ds[i]])
            /\ \/ depth = 0
               \/ exceeds_recursion_limit(ps, ds[i], depth - 1)

\* NetworkStructure.calculate_side_volume
calculate_side_volume(ps, partner_id) ==
    LET ds == ps[partner_id].downline_ids
        volumes == [i \in 1..Len(ds) |-> calculate_group_volume(ps, ds[i])]
    IN  IF volumes = <<>> THEN 0 ELSE SeqSum(volumes) - SeqMax(volumes)

\* the partner is counted only when it is itself above the threshold
RECURSIVE count_active_self_shielded(_, _, _)
count_active_self_shielded(ps, partner_id, depth) ==
    LET partner == ps[partner_id]
        ds == partner.downline_ids
    IN  (IF partner.active /\ ~is_compressed(partner) THEN 1 ELSE 0) +
        SeqSum([i \in 1..Len(ds) |->
                  IF is_compressed(ps[ds[i]]) \/ depth = 0 THEN 0
                  ELSE count_active_self_shielded(ps, ds[i], depth - 1)])

\* NetworkStructure.calculate_active_partners, depth calls away from the limit
RECURSIVE count_active(_, _, _)
count_active(ps, partner_id, depth) ==
    LET partner == ps[partner_id]
        ds == partner.downline_ids
    IN  (IF partner.active THEN 1 ELSE 0) +
        SeqSum([i \in 1..Len(ds) |->
                  IF is_compressed(ps[ds[i]]) \/ depth = 0 THEN 0
                  ELSE count_active(ps, ds[i], depth - 1)])

calculate_active_partners(ps, partner_id) ==
    count_active(ps, partner_id, recursion_limit(ps))

\* one of the three aggregations of update_qualifications for partner_id
\* ends in RecursionError
raises_recursion_error(ps, partner_id) ==
    \/ exceeds_recursion_limit(ps, partner_id, recursion_limit(ps))
    \/ \E i \in 1..Len(ps[partner_id].downline_ids) :
          exceeds_recursion_limit(ps, ps[partner_id].downline_ids[i],
                                  recursion_limit(ps))

-----------------------------------------------------------------------------
(* NetworkStructure.add_partner (structure.py:411-422).                    *)

\* self.partners[id] = partner: a new key, or the record under an old key
\* replaced
put(ps, id, partner) == (id :> partner) @@ ps

\* the upline reference of the new record is not set
attach_without_upline(ps, upline_id, id) ==
    [ps EXCEPT ![upline_id].downline_ids = Append(@, id)]

\* the body of "if upline_id is not None" once the lookup has succeeded
attach(ps, upline_id, id) ==
    [ps EXCEPT ![upline_id].downline_ids = Append(@, id),
               ![id].upline_id = upline_id]

\* add_partner on the tree st = [partners, next_id, err]: the record is
\* stored under next_id first; self.partners[upline_id] then raises KeyError
\* for an id that is not a key, before next_id is advanced
add_partner(st, pv, upline_id) ==
    LET created == put(st.partners, st.next_id, Partner(st.next_id, pv, "RU"))
    IN  IF upline_id = None
        THEN [partners |-> created, next_id |-> st.next_id + 1, err |-> "ok"]
        ELSE IF upline_id \in DOMAIN created
        THEN [partners |-> attach(created, upline_id, st.next_id),
              next_id |-> st.next_id + 1, err |-> "ok"]
        ELSE [partners |-> created, next_id |-> st.next_id, err |-> "KeyError"]

\* the ids a caller may pass as upline_id: None, every id the allocator
\* hands out below limit, and one more
UplineArgs(limit) == {None} \cup (0..limit)

AddPartner(pv, upline_id, limit) ==
    /\ next_id < limit
    /\ LET r == add_partner([partners |-> partners, next_id |-> next_id,
                             err |-> "ok"], pv, upline_id)
       IN  /\ partners' = r.partners
           /\ next_id' = r.next_id
           /\ err' = r.err
    /\ UNCHANGED <<now, args, total_pv, history, result, run>>

-----------------------------------------------------------------------------
(* UserOptimizer._build_m3_structure (optimizer.py:1657-1663).             *)

\* the last volume of the list mistyped
partner_pvs_short == <<800, 800, 700, 600>>

partner_pvs == <<800, 800, 700, 700>>

\* for pv in pvs[i..]: structure.add_partner(pv, upline_id); an exception
\* leaves the loop
RECURSIVE add_partners_between(_, _, _, _, _)
add_partners_between(st, pvs, first, last, upline_id) ==
    IF first > last \/ st.err # "ok" THEN st
    ELSE IF first = last THEN add_partner(st, pvs[first], upline_id)
    ELSE CHOOSE done \in
            {add_partners_between(half, pvs, (first + last) \div 2 + 1, last,
                                  upline_id) :
                half \in {add_partners_between(st, pvs, first,
                                               (first + last) \div 2,
                                               upline_id)}} : TRUE

add_partners(st, pvs, i, upline_id) ==
    add_partners_between(st, pvs, i, Len(pvs), upline_id)

BuildM3Structure(upline_id) ==
    /\ next_id + Len(partner_pvs) <= MaxScaffold
    /\ LET r == add_partners([partners |-> partners, next_id |-> next_id,
                              err |-> "ok"], partner_pvs, 1, upline_id)
       IN  /\ partners' = r.partners
           /\ next_id' = r.next_id
           /\ err' = r.err
    /\ UNCHANGED <<now, args, total_pv, history, result, run>>

-----------------------------------------------------------------------------
(* Direct writes of Partner.pv (optimizer.py:1708, 1719, 1731).            *)

SetPv(partner_id, pv) ==
    /\ partner_id \in DOMAIN partners
    /\ partners[partner_id].pv # pv
    /\ partners' = [partners EXCEPT ![partner_id].pv = pv]
    /\ err' = "ok"
    /\ UNCHANGED <<next_id, now, args, total_pv, history, result, run>>

-----------------------------------------------------------------------------
(* NetworkStructure.update_qualifications (structure.py:456-468).          *)

\* go, active_partners and side_volume of partner_id, computed before
\* update_qualification is called (structure.py:461-463)
aggregates(ps, partner_id) ==
    <<calculate_group_volume(ps, partner_id),
      calculate_active_partners(ps, partner_id),
      calculate_side_volume(ps, partner_id)>>

\* the record of the volumes and the evaluation of the tier, given the
\* aggregates <<go, active_partners, side_volume>> (structure.py:464-468)
update_partner(st, partner_id, computed, date) ==
    [st EXCEPT !.partners[partner_id] =
        update_qualification(
            add_volume_record(@, current_date, @.pv, computed[1]),
            computed[1], computed[2], computed[3], date)]

\* one round of the loop of update_qualifications on st = [partners, err]:
\* the first aggregation that raises ends the pass and leaves the records
\* before it updated
update_one(st, partner_id, date) ==
    IF st.err # "ok" THEN st
    ELSE IF raises_recursion_error(st.partners, partner_id)
    THEN [st EXCEPT !.err = "RecursionError"]
    ELSE CHOOSE updated \in
            {update_partner(st, partner_id, computed, date) :
                computed \in {aggregates(st.partners, partner_id)}} : TRUE

\* the rounds of the loop for the keys first..last, in ascending order (the
\* keys of self.partners are stored in ascending order): the rounds of the
\* first half of the range are completed, then those of the second half
RECURSIVE update_between(_, _, _, _)
update_between(st, first, last, date) ==
    IF first > last THEN st
    ELSE IF first = last THEN update_one(st, first, date)
    ELSE CHOOSE done \in
            {update_between(half, (first + last) \div 2 + 1, last, date) :
                half \in {update_between(st, first, (first + last) \div 2, date)}} :
            TRUE

\* the loop over self.partners from key partner_id on
update_from(ps, partner_id, date) ==
    update_between([partners |-> ps, err |-> "ok"], partner_id,
                   Cardinality(DOMAIN ps) - 1, date)

UpdateQualifications ==
    /\ Len(partners[root_id].volume_history) < MaxPasses
    /\ LET r == update_from(partners, 0, now)
       IN  /\ partners' = r.partners
           /\ err' = r.err
    /\ UNCHANGED <<next_id, now, args, total_pv, history, result, run>>

-----------------------------------------------------------------------------
(* NetworkStructure.calculate_income (structure.py:470-536).  Rates are in *)
(* thousandths and amounts of money in thousandths of a currency unit, so  *)
(* that volume * rate is an integer.                                       *)

\* BONUS_RATES['PERSONAL'], by the volume that earns the rate
PERSONAL == [v \in {70, 200} |-> IF v = 70 THEN 50 ELSE 100]

\* BONUS_RATES['GROUP'], in table order from M1 on
GROUP ==
    LET rates == <<50, 100, 150, 200, 250, 300, 350, 370, 390, 410, 430, 450,
                   470, 490, 510, 530, 550, 570>>
    IN  [q \in {QUALIFICATIONS[i].name : i \in 2..Len(QUALIFICATIONS)} |->
            rates[(CHOOSE i \in 2..Len(QUALIFICATIONS) :
                      QUALIFICATIONS[i].name = q) - 1]]

\* BONUS_RATES['CLUB']
CLUB == [c \in {"MIDDLE", "BUSINESS", "TRAVEL", "TOP"} |->
            CASE c = "MIDDLE" -> 20 [] c = "BUSINESS" -> 40 [] OTHER -> 10]

\* DYNAMIC_GO_BONUS_RATES in ascending order of the growth threshold:
\* <<growth threshold, rate>>
DYNAMIC_GO_BONUS_RATES == <<<<200, 5>>, <<300, 10>>, <<500, 15>>, <<1000, 20>>>>

\* MENTORSHIP_BONUSES, in currency units
MENTORSHIP_BONUSES ==
    [q \in {"M3", "B1", "B3", "TOP"} |->
        CASE q = "M3" -> 100 [] q = "B1" -> 200 [] q = "B3" -> 500 [] OTHER -> 1000]

\* QUALIFICATION_MAINTENANCE_PERIODS
QUALIFICATION_MAINTENANCE_PERIODS ==
    [q \in {"M3", "B1", "B3", "TOP"} |-> IF q = "M3" THEN 3 ELSE 6]

\* RECOVERY_CONDITIONS[status]['bonus_rate']
recovery_bonus_rates ==
    [status \in {"QUICK", "STANDARD", "GRADUAL"} |->
        CASE status = "QUICK" -> 50 [] status = "STANDARD" -> 30 [] OTHER -> 20]

\* CURRENCY_RATES[REGIONS[region]['currency']]
currency_rate ==
    [r \in RegionCodes |->
        CASE r = "RU" -> 35 [] r = "KZ" -> 175 [] r = "UZ" -> 3850 [] OTHER -> 35]

\* Partner.calculate_go_growth as the fraction <<current_go - past_go,
\* past_go>>; <<0, 1>> is the 0.0 of a short history or of past_go == 0
calculate_go_growth(p, months) ==
    LET h == p.volume_history
    IN  IF Len(h) < months + 1 THEN <<0, 1>>
        ELSE LET current_go == h[Len(h)][3]
                 past_go == h[Len(h) - months][3]
             IN  IF past_go = 0 THEN <<0, 1>>
                 ELSE <<current_go - past_go, past_go>>

\* the loop of get_dynamic_bonus_rate from the i-th threshold on
RECURSIVE scan_dynamic_rates(_, _, _)
scan_dynamic_rates(i, growth, bonus_rate) ==
    IF i > Len(DYNAMIC_GO_BONUS_RATES) THEN bonus_rate
    ELSE scan_dynamic_rates(
            i + 1, growth,
            IF growth[1] * 1000 >= DYNAMIC_GO_BONUS_RATES[i][1] * growth[2]
            THEN DYNAMIC_GO_BONUS_RATES[i][2] ELSE bonus_rate)

\* Partner.get_dynamic_bonus_rate
get_dynamic_bonus_rate(p) == scan_dynamic_rates(1, calculate_go_growth(p, 3), 0)

\* Partner.get_qualification_maintenance_period: the length of the run of
\* records of this tier at the end of the qualification history
RECURSIVE get_qualification_maintenance_period(_, _)
get_qualification_maintenance_period(h, qualification) ==
    IF h = <<>> \/ h[Len(h)][2] # qualification THEN 0
    ELSE 1 + get_qualification_maintenance_period(SubSeq(h, 1, Len(h) - 1),
                                                  qualification)

\* the granted set is not consulted
mentorship_due_every_time(p, new_qualification) ==
    new_qualification \in DOMAIN MENTORSHIP_BONUSES

\* the condition of Partner.calculate_mentorship_bonus
mentorship_due(p, new_qualification) ==
    /\ new_qualification \in DOMAIN MENTORSHIP_BONUSES
    /\ new_qualification \notin p.mentorship_bonuses_received

\* Partner.get_recovery_bonus_rate
get_recovery_bonus_rate(p, date) ==
    IF p.recovery_bonus_expiry = None THEN 0
    ELSE IF date <= p.recovery_bonus_expiry
    THEN recovery_bonus_rates[IF p.recovery_status = "None" THEN "GRADUAL"
                              ELSE p.recovery_status]
    ELSE 0

\* The arithmetic of calculate_income (structure.py:483-536) on the
\* aggregates it has collected: the dict it returns.
income_breakdown(partner, go, dynamic_rate, maintenance_period, due, recovery_bonus_rate) ==
    LET personal == IF partner.pv >= 200 THEN partner.pv * PERSONAL[200]
                    ELSE IF partner.pv >= 70 THEN partner.pv * PERSONAL[70]
                    ELSE 0
        base_group_rate == IF partner.qualification \in DOMAIN GROUP
                           THEN GROUP[partner.qualification] ELSE 0
        group == go * (base_group_rate + dynamic_rate)
        club ==
            (IF /\ partner.qualification = "M3"
                /\ maintenance_period >= QUALIFICATION_MAINTENANCE_PERIODS["M3"]
             THEN go * CLUB["MIDDLE"] ELSE 0) +
            (IF /\ partner.qualification \in {"B1", "B2", "B3"}
                /\ maintenance_period >= QUALIFICATION_MAINTENANCE_PERIODS["B1"]
             THEN go * (CLUB["BUSINESS"] + CLUB["TRAVEL"]) ELSE 0) +
            (IF /\ partner.qualification = "B3"
                /\ maintenance_period >= QUALIFICATION_MAINTENANCE_PERIODS["B3"]
             THEN go * CLUB["TOP"] ELSE 0)
        mentorship == IF due THEN MENTORSHIP_BONUSES[partner.qualification] * 1000
                      ELSE 0
        recovery == ((personal + group + club + mentorship) * recovery_bonus_rate)
                    \div 1000
        rate == currency_rate[partner.region]
    IN  [personal_bonus |-> (personal + recovery) * rate,
         group_bonus |-> (group + recovery) * rate,
         club_bonus |-> (club + recovery) * rate,
         mentorship_bonus |-> (mentorship + recovery) * rate,
         dynamic_bonus |-> go * dynamic_rate * rate,
         recovery_bonus |-> recovery * rate]

\* income['total'] = sum(income.values())
with_total(income) ==
    [personal_bonus |-> income.personal_bonus,
     group_bonus |-> income.group_bonus,
     club_bonus |-> income.club_bonus,
     mentorship_bonus |-> income.mentorship_bonus,
     dynamic_bonus |-> income.dynamic_bonus,
     recovery_bonus |-> income.recovery_bonus,
     total |-> income.personal_bonus + income.group_bonus +
               income.club_bonus + income.mentorship_bonus +
               income.dynamic_bonus + income.recovery_bonus]

\* calculate_income for a partner whose mentorship bonus is due or not
income_of(ps, partner_id, due, date) ==
    [partners |->
        IF due
        THEN [ps EXCEPT ![partner_id].mentorship_bonuses_received =
                            @ \cup {ps[partner_id].qualification}]
        ELSE ps,
     income |->
        with_total(income_breakdown(
            ps[partner_id],
            calculate_group_volume(ps, partner_id),
            get_dynamic_bonus_rate(ps[partner_id]),
            get_qualification_maintenance_period(
                ps[partner_id].qualification_history,
                ps[partner_id].qualification),
            due,
            get_recovery_bonus_rate(ps[partner_id], date)))]

\* calculate_income(partner_id) at time date: the dict it returns and the
\* partner map it leaves (the tier of a paid mentorship bonus is added to
\* mentorship_bonuses_received)
calculate_income(ps, partner_id, date) ==
    income_of(ps, partner_id,
              mentorship_due(ps[partner_id], ps[partner_id].qualification), date)

\* structure.calculate_income(partner_id) called from outside
CalculateIncome(partner_id) ==
    /\ partner_id \in DOMAIN partners
    /\ IF exceeds_recursion_limit(partners, partner_id, recursion_limit(partners))
       THEN /\ err' = "RecursionError"
            /\ UNCHANGED <<partners, result>>
       ELSE LET r == calculate_income(partners, partner_id, now)
            IN  /\ partners' = r.partners
                /\ result' = [call |-> "calculate_income",
                               partner_id |-> partner_id, value |-> r.income]
                /\ err' = "ok"
    /\ UNCHANGED <<next_id, now, args, total_pv, history, run>>

-----------------------------------------------------------------------------
(* NetworkStructure.get_metrics and create_snapshot (structure.py:538-624) *)

\* sum(1 for p in self.partners.values() if p.active)
count_active_records(ps) == Cardinality({id \in DOMAIN ps : ps[id].active})

\* sum(p.pv for p in self.partners.values())
RECURSIVE sum_pv(_, _)
sum_pv(ps, ids) ==
    IF ids = {} THEN 0
    ELSE LET id == CHOOSE x \in ids : TRUE
         IN  ps[id].pv + sum_pv(ps, ids \ {id})

\* qualification_counts: tier -> number of partners that hold it
qualification_counts(ps) ==
    [q \in {ps[id].qualification : id \in DOMAIN ps} |->
        Cardinality({id \in DOMAIN ps : ps[id].qualification = q})]

\* the dict of get_metrics, given what its calculate_income(root_id) call
\* returned
metrics_of(ps, r) ==
    [total_partners |-> Cardinality(DOMAIN ps),
     active_partners |-> count_active_records(ps),
     total_pv |-> sum_pv(ps, DOMAIN ps),
     qualification_counts |-> qualification_counts(ps),
     expected_income |-> r.income.total,
     income_breakdown |-> r.income,
     growth_metrics |->
        [monthly_growth |-> calculate_go_growth(r.partners[root_id], 1),
         quarterly_growth |-> calculate_go_growth(r.partners[root_id], 3),
         yearly_growth |-> calculate_go_growth(r.partners[root_id], 12)]]

\* the partner map the call leaves, with the dict
metrics_after(ps, r) == [partners |-> r.partners, metrics |-> metrics_of(ps, r)]

\* get_metrics at time date: the dict it returns and the partner map that
\* its calculate_income(root_id) leaves
get_metrics(ps, date) == metrics_after(ps, calculate_income(ps, root_id, date))

\* A list held by a snapshot: a copy carries the value the list had when
\* it was taken; a shared list would be read through the partner that owns
\* it.
list_shared(ps, id, field) == [owner |-> id, field |-> field, value |-> <<>>]

\* p.downline_ids.copy(), p.volume_history.copy()
list_copy(ps, id, field) == [owner |-> None, field |-> field, value |-> ps[id][field]]

\* what a reader of the snapshot sees in the list
list_read(ps, l) ==
    IF l.owner = None THEN l.value
    ELSE IF l.owner \in DOMAIN ps THEN ps[l.owner][l.field] ELSE <<>>

\* base_metrics.copy() updated with snapshot_data['metrics']; the keys
\* added "if not in metrics" afterwards are all keys of get_metrics
merged(base_metrics, snapshot_data) ==
    IF "metrics" \in DOMAIN snapshot_data
    THEN [k \in DOMAIN base_metrics \cup DOMAIN snapshot_data.metrics |->
            IF k \in DOMAIN snapshot_data.metrics THEN snapshot_data.metrics[k]
            ELSE base_metrics[k]]
    ELSE base_metrics

\* partners_state of create_snapshot
partners_state_of(ps) ==
    [id \in DOMAIN ps |->
        [pv |-> ps[id].pv,
         qualification |-> ps[id].qualification,
         active |-> ps[id].active,
         upline_id |-> ps[id].upline_id,
         downline_ids |-> list_copy(ps, id, "downline_ids"),
         volume_history |-> list_copy(ps, id, "volume_history")]]

\* the snapshot appended, given what get_metrics returned
snapshot_appended(base, h, snapshot_data, date) ==
    [partners |-> base.partners,
     history |-> Append(h, [stage_name |-> snapshot_data.name,
                            metrics |-> merged(base.metrics, snapshot_data),
                            partners_state |-> partners_state_of(base.partners),
                            timestamp |-> date])]

\* create_snapshot(snapshot_data) at time date on st = [partners, history]
create_snapshot(st, snapshot_data, date) ==
    snapshot_appended(get_metrics(st.partners, date), st.history,
                      snapshot_data, date)

\* NetworkSnapshot.to_dict read now: the lists are read through their owner
to_dict(ps, snapshot) ==
    [stage_name |-> snapshot.stage_name,
     metrics |-> snapshot.metrics,
     partners_state |->
        [id \in DOMAIN snapshot.partners_state |->
            [snapshot.partners_state[id] EXCEPT
                !.downline_ids = list_read(ps, @),
                !.volume_history = list_read(ps, @)]],
     timestamp |-> snapshot.timestamp]

\* get_history()
get_history(ps, h) == [i \in 1..Len(h) |-> to_dict(ps, h[i])]

MaxSnapshots == 2   \* create_snapshot calls on one tree

\* The snapshot_data of the callers: a stage name alone, and a stage name
\* with the metrics of optimize_for_profit's first stage, which carry the
\* budget under the key total_pv.
SnapshotArgs ==
    {[name |-> "Stage"],
     [name |-> "Stage 1: personal sales",
      metrics |-> [stage |-> "personal sales", total_pv |-> total_pv]]}

CreateSnapshot(snapshot_data) ==
    /\ Len(history) < MaxSnapshots
    /\ LET r == create_snapshot([partners |-> partners, history |-> history],
                                snapshot_data, now)
       IN  /\ partners' = r.partners
           /\ history' = r.history
    /\ err' = "ok"
    /\ UNCHANGED <<next_id, now, args, total_pv, result, run>>

-----------------------------------------------------------------------------
(* UserOptimizer._calculate_vulnerability_score (optimizer.py:523-539).    *)
(* Risk levels and weights are in hundredths, the score in ten-thousandths.*)

\* the keys of the vulnerabilities dict of analyze_vulnerabilities
Detectors ==
    {"compression_abuse", "qualification_abuse", "volume_distribution",
     "structure_manipulation", "bonus_exploitation",
     "nonstandard_configurations"}

\* one weight negative
weights_signed ==
    [d \in Detectors |->
        IF d = "compression_abuse" THEN 20
        ELSE IF d = "qualification_abuse" THEN -20 ELSE 15]

weights ==
    [d \in Detectors |->
        IF d \in {"compression_abuse", "qualification_abuse"} THEN 20 ELSE 15]

\* sum(data['risk_level'] * weights[vuln_type] ...) over the detectors ds
RECURSIVE weighted_risk(_, _)
weighted_risk(vulnerabilities, ds) ==
    IF ds = {} THEN 0
    ELSE LET d == CHOOSE x \in ds : TRUE
         IN  vulnerabilities[d].risk_level * weights[d] +
             weighted_risk(vulnerabilities, ds \ {d})

calculate_vulnerability_score(vulnerabilities) ==
    LET total_score == weighted_risk(vulnerabilities, DOMAIN vulnerabilities)
    IN  IF total_score < 10000 THEN total_score ELSE 10000

\* Risk levels a detector can return: none, one finding, the cap of
\* min(risk_level, 1.0).
RiskLevels == {0, 30, 100}

CalculateVulnerabilityScore ==
    /\ result = NoResult
    /\ result' = [call |-> "_calculate_vulnerability_score",
                  value |-> calculate_vulnerability_score(args)]
    /\ UNCHANGED <<partners, next_id, now, err, args, total_pv, history, run>>

\* the detector results of one analysis
InitScore ==
    /\ partners = put(<<>>, 0, Partner(0, 200, "RU"))
    /\ next_id = 1
    /\ now = 0
    /\ err = "ok"
    /\ args \in [Detectors -> [risk_level : RiskLevels]]
    /\ total_pv = 10000
    /\ history = <<>>
    /\ result = NoResult
    /\ run = Idle

NextScore == CalculateVulnerabilityScore

SpecScore == InitScore /\ [][NextScore]_vars

-----------------------------------------------------------------------------
(* ScenarioAnalyzer.analyze_scenario (optimizer.py:1774-1895).  Money is   *)
(* in thousandths of a unit, as in calculate_income.                       *)

\* 5% for every volume from 70 up
scenario_personal_bonus_flat(pv) == IF pv >= 70 THEN pv * 50 ELSE 0

\* lines 1786-1790: 5% from 70, replaced by 10% from 200
scenario_personal_bonus(pv) ==
    IF pv >= 200 THEN pv * 100
    ELSE IF pv >= 70 THEN pv * 50
    ELSE 0

\* lines 1798-1807, in units
scenario_partner_bonus(active_partners) ==
    IF active_partners >= 15 THEN 500
    ELSE IF active_partners >= 12 THEN 400
    ELSE IF active_partners >= 9 THEN 300
    ELSE IF active_partners >= 7 THEN 200
    ELSE IF active_partners >= 5 THEN 100
    ELSE 0

\* go_bonus_rates (lines 1815-1822): the same table as BONUS_RATES['GROUP']
go_bonus_rates == GROUP

\* lines 1828-1837; the branch for B3 after the one for B1..B3 is never
\* taken
scenario_club_bonus(qualification, go) ==
    IF qualification = "M3" THEN go * 20
    ELSE IF qualification \in {"B1", "B2", "B3"}
    THEN go * 40 + (IF qualification = "B1" THEN go * 10 ELSE 0)
    ELSE 0

\* _calculate_risk_score as the fraction <<numerator, denominator>>:
\* 0.3 * largest branch / total volume + 0.2 * max(0, 1 - active / 5); the
\* third risk reads the key 'go', which no tier has, and is 0
calculate_risk_score(ps) ==
    LET ds == ps[root_id].downline_ids
        max_branch_volume ==
            IF ds = <<>> THEN 0
            ELSE SeqMax([i \in 1..Len(ds) |-> calculate_group_volume(ps, ds[i])])
        total_volume == calculate_group_volume(ps, root_id)
        active_partners == calculate_active_partners(ps, root_id)
        missing == IF active_partners < 5 THEN 5 - active_partners ELSE 0
    IN  IF total_volume > 0
        THEN <<15 * max_branch_volume + 2 * missing * total_volume,
               50 * total_volume>>
        ELSE <<2 * missing, 50>>

\* the metrics dict built after the pass; ps is the map the pass left
scenario_metrics(ps, budget) ==
    LET root_partner == ps[root_id]
        personal_bonus == scenario_personal_bonus(root_partner.pv)
        active_partners ==
            Cardinality({id \in DOMAIN ps :
                            ps[id].upline_id = root_id /\ ps[id].pv >= 70})
        partner_bonus == scenario_partner_bonus(active_partners) * 1000
        go == calculate_group_volume(ps, root_id)
        qualification == root_partner.qualification
        group_bonus == IF qualification \in DOMAIN go_bonus_rates
                       THEN go * go_bonus_rates[qualification] ELSE 0
        club_bonus == scenario_club_bonus(qualification, go)
        total_income == personal_bonus + partner_bonus + group_bonus + club_bonus
    IN  [total_income |-> total_income,
         personal_bonus |-> personal_bonus,
         partner_bonus |-> partner_bonus,
         group_bonus |-> group_bonus,
         club_bonus |-> club_bonus,
         qualification |-> qualification,
         active_partners |-> active_partners,
         group_volume |-> go,
         side_volume |-> calculate_side_volume(ps, root_id),
         efficiency |-> <<total_income, budget>>,
         risk_score |-> calculate_risk_score(ps)]

\* analyze_scenario(structure): a pass of update_qualifications, then the
\* metrics of the root
AnalyzeScenario ==
    /\ Len(partners[root_id].volume_history) < MaxPasses
    /\ total_pv # 0
    /\ LET r == update_from(partners, 0, now)
       IN  /\ partners' = r.partners
           /\ err' = r.err
           /\ result' = IF r.err = "ok"
                        THEN [call |-> "analyze_scenario",
                              value |-> scenario_metrics(r.partners, total_pv)]
                        ELSE result
    /\ UNCHANGED <<next_id, now, args, total_pv, history, run>>

\* The budgets given to generate_scenarios: the least its page accepts, the
\* constructor's 200, the least the optimizer page accepts, and the default.
Budgets == {100, 200, 1000, 10000}

\* NetworkStructure(total_pv)
InitScenario ==
    /\ partners = put(<<>>, 0, Partner(0, 200, "RU"))
    /\ next_id = 1
    /\ now = 0
    /\ err = "ok"
    /\ args = <<>>
    /\ total_pv \in Budgets
    /\ history = <<>>
    /\ result = NoResult
    /\ run = Idle

\* the scenario builders: the whole budget written to the root
\* (optimizer.py:1708), partners added under the root, the analysis
NextScenario ==
    \/ SetPv(root_id, total_pv)
    \/ \E pv \in Vols : AddPartner(pv, root_id, MaxFamily)
    \/ AnalyzeScenario

SpecScenario == InitScenario /\ [][NextScenario]_vars

-----------------------------------------------------------------------------
(* UserOptimizer.optimize_for_profit and the helpers it calls              *)
(* (optimizer.py:25-158, 194-256, 1405-1414, 1604-1690).  Volumes are      *)
(* integers: a stage whose division of a volume among partners is not      *)
(* exact is not taken.                                                     *)

min_partner_pv == 50            \* UserOptimizer.min_partner_pv

Min(a, b) == IF a < b THEN a ELSE b
Max(a, b) == IF a > b THEN a ELSE b

\* the keys of QUALIFICATIONS and the entry under a key
qualification_names == {QUALIFICATIONS[i].name : i \in DOMAIN QUALIFICATIONS}

requirements_of(qualification) ==
    QUALIFICATIONS[CHOOSE i \in DOMAIN QUALIFICATIONS :
                        QUALIFICATIONS[i].name = qualification]

\* the ids of S in the order of the keys of self.partners
RECURSIVE in_key_order(_)
in_key_order(S) ==
    IF S = {} THEN <<>>
    ELSE LET first == CHOOSE a \in S : \A b \in S : a <= b
         IN  <<first>> \o in_key_order(S \ {first})

\* _get_partner_level: the number of upline references up to a record
\* without one
RECURSIVE get_partner_level(_, _)
get_partner_level(ps, partner_id) ==
    IF ps[partner_id].upline_id = None THEN 0
    ELSE 1 + get_partner_level(ps, ps[partner_id].upline_id)

\* sum(structure.calculate_income(p.id)['total'] for p in partners) from
\* ids[i] on, added to paid: the calls are made in the order of ids, each on
\* the map the call before left
\* one term of the sum: calculate_income of a partner on the map the call
\* before left, its total added to what is summed so far
payout_one(st, partner_id, date) ==
    CHOOSE summed \in
        {[partners |-> r.partners, value |-> st.value + r.income.total] :
            r \in {calculate_income(st.partners, partner_id, date)}} : TRUE

\* the terms for ids[first..last], in the order of ids: those of the first
\* half of the range, then those of the second half
RECURSIVE payout_between(_, _, _, _, _)
payout_between(st, ids, first, last, date) ==
    IF first > last THEN st
    ELSE IF first = last THEN payout_one(st, ids[first], date)
    ELSE CHOOSE done \in
            {payout_between(half, ids, (first + last) \div 2 + 1, last, date) :
                half \in {payout_between(st, ids, first,
                                         (first + last) \div 2, date)}} : TRUE

\* sum(structure.calculate_income(p.id)['total'] for p in partners) from
\* ids[i] on, added to paid: the calls are made in the order of ids, each on
\* the map the call before left
total_payout(ps, ids, i, date, paid) ==
    payout_between([partners |-> ps, value |-> paid], ids, i, Len(ids), date)

\* sum(structure.calculate_group_volume(p.id) for p in partners)
RECURSIVE sum_group_volume(_, _)
sum_group_volume(ps, ids) ==
    IF ids = {} THEN 0
    ELSE LET id == CHOOSE x \in ids : TRUE
         IN  calculate_group_volume(ps, id) + sum_group_volume(ps, ids \ {id})

\* the dict of _get_level_metrics for the partners ids of a level, given
\* the sum of their payouts; avg_pv is the pair <<sum, count>>
level_metrics(ps, ids, paid) ==
    [partners |-> paid.partners,
     metrics |->
        [total_partners |-> Cardinality(ids),
         pv_distribution |->
            ("70_pv" :> Cardinality({id \in ids : ps[id].pv >= 70})) @@
            ("200_pv" :> Cardinality({id \in ids : ps[id].pv >= 200})),
         qualifications |->
            [qual \in qualification_names |->
                Cardinality({id \in ids : ps[id].qualification = qual})],
         total_pv |-> sum_pv(ps, ids),
         avg_pv |-> IF ids # {} THEN <<sum_pv(ps, ids), Cardinality(ids)>>
                    ELSE <<0, 1>>,
         total_group_volume |-> sum_group_volume(ps, ids),
         total_payout |-> paid.value]]

\* the partners of a level, in the order of the keys
level_partners(ps, level) ==
    in_key_order({id \in DOMAIN ps : get_partner_level(ps, id) = level})

\* the set of the elements of a sequence
Range(s) == {s[i] : i \in DOMAIN s}

\* _get_level_metrics: the dict and the partner map its calculate_income
\* calls leave
get_level_metrics(ps, level, date) ==
    level_metrics(ps, Range(level_partners(ps, level)),
                  total_payout(ps, level_partners(ps, level), 1, date, 0))

\* the entry of a level and the running totals after it
level_added(acc, level, m, current_payout) ==
    [partners |-> m.partners,
     current_payout |-> current_payout,
     payout_progression |-> Append(acc.payout_progression, current_payout),
     level_details |->
        Append(acc.level_details,
               [metrics |-> m.metrics,
                cumulative_payout |-> current_payout,
                payout_increase |->
                    current_payout -
                    (IF level > 0
                     THEN acc.payout_progression[Len(acc.payout_progression)]
                     ELSE 0)])]

level_measured(acc, level, m) ==
    level_added(acc, level, m, acc.current_payout + m.metrics.total_payout)

\* one round of the loop of analyze_level_progression
level_step(acc, level, date) ==
    level_measured(acc, level, get_level_metrics(acc.partners, level, date))

RECURSIVE levels_from(_, _, _, _)
levels_from(acc, level, max_level, date) ==
    IF level > max_level THEN acc
    ELSE CHOOSE done \in
            {levels_from(next, level + 1, max_level, date) :
                next \in {level_step(acc, level, date)}} : TRUE

\* max(self._get_partner_level(structure, p_id) for p_id in partners)
max_level_of(ps) ==
    CHOOSE l \in {get_partner_level(ps, id) : id \in DOMAIN ps} :
        \A id \in DOMAIN ps : get_partner_level(ps, id) <= l

\* the dict analyze_level_progression returns, from the state of its loop
level_progression(done) ==
    [partners |-> done.partners,
     value |-> [level_details |-> done.level_details,
                payout_progression |-> done.payout_progression,
                total_levels |-> Len(done.level_details)]]

\* analyze_level_progression: the dict it returns (level_details[l + 1] is
\* the entry under 'level_l') and the partner map its calculate_income
\* calls leave
analyze_level_progression(ps, date) ==
    level_progression(
        levels_from([partners |-> ps, current_payout |-> 0,
                     payout_progression |-> <<>>, level_details |-> <<>>],
                    0, max_level_of(ps), date))

\* NetworkStructure.get_qualification_changes (structure.py:630-648)
RECURSIVE qualification_changes_from(_, _, _)
qualification_changes_from(ps, ids, i) ==
    IF i > Len(ids) THEN <<>>
    ELSE LET partner == ps[ids[i]]
             h == partner.qualification_history
             rest == qualification_changes_from(ps, ids, i + 1)
         IN  IF Len(h) >= 2 /\ h[Len(h) - 1][2] # partner.qualification
             THEN <<[partner_id |-> partner.id,
                     from_qualification |-> h[Len(h) - 1][2],
                     to_qualification |-> partner.qualification,
                     group_volume |-> calculate_group_volume(ps, partner.id)]>>
                  \o rest
             ELSE rest

get_qualification_changes(ps) ==
    qualification_changes_from(ps, in_key_order(DOMAIN ps), 1)

\* [pv] * count
repeated(pv, count) == [i \in 1..count |-> pv]

\* _build_minimal_structure on st = [partners, next_id, err]
build_minimal_structure(st, upline_id, target_qual) ==
    LET requirements == requirements_of(target_qual)
        min_partners == requirements.min_partners
    IN  IF min_partners = 0 THEN [st EXCEPT !.err = "ZeroDivisionError"]
        ELSE add_partners(st, repeated(requirements.min_go \div min_partners,
                                       min_partners), 1, upline_id)

m3_pvs == <<2500, 2500, 2000>>
side_pvs == <<1000, 1000>>

\* the first loop of _build_b3_structure from m3_pvs[i] on
RECURSIVE build_m3_partners(_, _, _)
build_m3_partners(st, i, upline_id) ==
    IF i > Len(m3_pvs) \/ st.err # "ok" THEN st
    ELSE LET m3_id == st.next_id
             added == add_partner(st, m3_pvs[i], upline_id)
         IN  IF added.err # "ok" THEN added
             ELSE build_m3_partners(build_minimal_structure(added, m3_id, "M3"),
                                    i + 1, upline_id)

\* _build_b3_structure
build_b3_structure(st, upline_id) ==
    add_partners(build_m3_partners(st, 1, upline_id), side_pvs, 1, upline_id)

\* partner_count of the aggressive and conservative branches of
\* _build_target_structure, min_partners of _build_minimal_structure
partner_count(target_qual, strategy) ==
    LET requirements == requirements_of(target_qual)
    IN  IF strategy = "aggressive" THEN Max(3, requirements.min_partners - 1)
        ELSE IF strategy = "conservative" THEN requirements.min_partners + 2
        ELSE requirements.min_partners

\* min_go / partner_count has no remainder (or is not computed)
exact_build(target_qual, strategy) ==
    IF strategy \notin {"aggressive", "conservative"} /\ target_qual \in {"M3", "B3"}
    THEN TRUE
    ELSE IF partner_count(target_qual, strategy) = 0 THEN TRUE
    ELSE requirements_of(target_qual).min_go
            % partner_count(target_qual, strategy) = 0

\* _build_target_structure on st = [partners, next_id, err]
build_target_structure(st, upline_id, target_qual, strategy) ==
    LET requirements == requirements_of(target_qual)
        count == partner_count(target_qual, strategy)
    IN  IF strategy \in {"aggressive", "conservative"}
        THEN add_partners(st, repeated(requirements.min_go \div count, count),
                          1, upline_id)
        ELSE IF target_qual = "M3" THEN add_partners(st, partner_pvs, 1, upline_id)
        ELSE IF target_qual = "B3" THEN build_b3_structure(st, upline_id)
        ELSE build_minimal_structure(st, upline_id, target_qual)

\* _calculate_partner_potential: the difference it returns and the partner
\* map its two calculate_income calls leave
potential_measured(current, potential, partner_id) ==
    [partners |-> [potential.partners EXCEPT ![partner_id].pv = @ - 1000],
     value |-> potential.income.total - current.income.total]

potential_raised(current, partner_id, date) ==
    potential_measured(
        current,
        calculate_income([current.partners EXCEPT ![partner_id].pv = @ + 1000],
                         partner_id, date),
        partner_id)

calculate_partner_potential(ps, partner_id, date) ==
    potential_raised(calculate_income(ps, partner_id, date), partner_id, date)

\* the keys list.sort computes, one call per partner in list order, added
\* to keys
potential_one(st, partner_id, date) ==
    CHOOSE ranked \in
        {[partners |-> r.partners, value |-> (partner_id :> r.value) @@ st.value] :
            r \in {calculate_partner_potential(st.partners, partner_id, date)}} :
        TRUE

RECURSIVE potentials_between(_, _, _, _, _)
potentials_between(st, ids, first, last, date) ==
    IF first > last THEN st
    ELSE IF first = last THEN potential_one(st, ids[first], date)
    ELSE CHOOSE done \in
            {potentials_between(half, ids, (first + last) \div 2 + 1, last, date) :
                half \in {potentials_between(st, ids, first,
                                             (first + last) \div 2, date)}} : TRUE

potentials(ps, ids, i, date, keys) ==
    potentials_between([partners |-> ps, value |-> keys], ids, i, Len(ids), date)

\* list.sort(key=...): ascending by key, equal keys in list order
sorted_by(ids, key) ==
    LET before(a, b) == key[a] < key[b] \/ (key[a] = key[b] /\ a < b)
        rank(a) == Cardinality({b \in ids : before(b, a)}) + 1
    IN  [i \in 1..Cardinality(ids) |-> CHOOSE a \in ids : rank(a) = i]

\* the number of partners _distribute_remaining_pv spreads the volume over
top_partners(ps, strategy) ==
    Min(Cardinality(DOMAIN ps),
        IF strategy = "aggressive" THEN 3
        ELSE IF strategy = "conservative" THEN 7 ELSE 5)

\* that loop with every partner but the last of the top partners served
add_shares_but_last(ps, sorted, i, top, pv_per_partner, remaining_pv) ==
    [id \in DOMAIN ps |->
        IF \E j \in i..(top - 1) : sorted[j] = id
        THEN [ps[id] EXCEPT !.pv = @ + pv_per_partner] ELSE ps[id]]

\* the loop of _distribute_remaining_pv from partners[i] on: the last of
\* the top partners receives what is left
RECURSIVE add_shares(_, _, _, _, _, _)
add_shares(ps, sorted, i, top, pv_per_partner, remaining_pv) ==
    IF i > top THEN ps
    ELSE IF i = top
    THEN [ps EXCEPT ![sorted[i]].pv = @ + remaining_pv]
    ELSE CHOOSE done \in
            {add_shares(next, sorted, i + 1, top, pv_per_partner,
                        remaining_pv - pv_per_partner) :
                next \in {[ps EXCEPT ![sorted[i]].pv = @ + pv_per_partner]}} :
            TRUE

\* the volumes added to the first partners of the sorted list
shared_out(keyed, ids, top, remaining_pv) ==
    add_shares(keyed.partners, sorted_by(ids, keyed.value), 1, top,
               remaining_pv \div top, remaining_pv)

\* _distribute_remaining_pv: the partner map it leaves
distribute_remaining_pv(ps, remaining_pv, strategy, date) ==
    shared_out(potentials(ps, in_key_order(DOMAIN ps), 1, date, <<>>),
               DOMAIN ps, top_partners(ps, strategy), remaining_pv)

\* The position of one optimize_for_profit call: the stage it is in, the
\* step of the stage it has completed ("added": the stage's partners or
\* volumes are in the tree, "passed": update_qualifications has run,
\* "done": the stage's snapshot is taken), its arguments and its locals.
Started(strategy, target_qualification, min_partners, max_partners) ==
    [stage |-> 1, step |-> "done", strategy |-> strategy,
     target_qualification |-> target_qualification,
     min_partners |-> min_partners, max_partners |-> max_partners,
     remaining_pv |-> total_pv - partners[root_id].pv,
     partners_added |-> 0, distributed |-> 0,
     basic_payout |-> 0, m3_payout_increase |-> 0]

\* initial_metrics, given what calculate_income of the root returned
initial_metrics(paid, strategy, target_qualification) ==
    [stage |-> "personal sales",
     total_pv |-> total_pv,
     personal_pv |-> partners[root_id].pv,
     payout |-> paid.income.total,
     strategy |-> strategy,
     target_qualification |-> target_qualification]

\* the snapshot of a stage is appended
Taken(taken) ==
    /\ partners' = taken.partners
    /\ history' = taken.history

\* structure.create_snapshot({'name': name, 'metrics': metrics}) on the
\* partner map ps
TakeSnapshot(ps, name, metrics) ==
    \E taken \in {create_snapshot([partners |-> ps, history |-> history],
                                  [name |-> name, metrics |-> metrics], now)} :
        Taken(taken)

FirstSnapshot(paid, strategy, target_qualification) ==
    TakeSnapshot(paid.partners, "Stage 1: personal sales",
                 initial_metrics(paid, strategy, target_qualification))

\* stage 1 (optimizer.py:40-54)
OptimizeStage1(strategy, target_qualification, min_partners, max_partners) ==
    /\ run = Idle
    /\ FirstSnapshot(calculate_income(partners, root_id, now),
                     strategy, target_qualification)
    /\ run' = Started(strategy, target_qualification, min_partners, max_partners)
    /\ err' = "ok"
    /\ UNCHANGED <<next_id, now, args, total_pv, result>>

\* initial_partners and pv_per_partner of stage 2 (optimizer.py:57-71)
pv_per_partner_of(strategy) ==
    IF strategy = "aggressive" THEN min_partner_pv * 2
    ELSE IF strategy = "conservative" THEN min_partner_pv \div 2
    ELSE min_partner_pv

initial_partners_of(r) ==
    LET by_strategy ==
            Min(IF r.strategy = "aggressive" THEN 3
                ELSE IF r.strategy = "conservative" THEN 7 ELSE 5,
                r.remaining_pv \div pv_per_partner_of(r.strategy))
        at_least == IF r.min_partners # None
                    THEN Max(by_strategy, r.min_partners) ELSE by_strategy
    IN  IF r.max_partners # None THEN Min(at_least, r.max_partners)
        ELSE at_least

\* the partners of a stage are in the tree
Added(added, initial_partners, cost) ==
    /\ partners' = added.partners
    /\ next_id' = added.next_id
    /\ run' = [run EXCEPT !.stage = 2, !.step = "added",
                          !.partners_added = initial_partners,
                          !.remaining_pv = @ - cost]

\* stage 2, the loop that adds the partners (optimizer.py:73-76)
OptimizeAddPartners ==
    /\ run.stage = 1
    /\ Added(add_partners([partners |-> partners, next_id |-> next_id,
                           err |-> "ok"],
                          repeated(pv_per_partner_of(run.strategy),
                                   Max(initial_partners_of(run), 0)),
                          1, root_id),
             initial_partners_of(run),
             Max(initial_partners_of(run), 0) * pv_per_partner_of(run.strategy))
    /\ err' = "ok"
    /\ UNCHANGED <<now, args, total_pv, history, result>>

\* the two conditions that open stages 3 and 4 (optimizer.py:92-94)
build_due(r) ==
    /\ r.target_qualification \in qualification_names
    /\ r.remaining_pv >= requirements_of(r.target_qualification).min_go

\* the structure of a build stage is in the tree and cost is taken from
\* remaining_pv; an exception of the build ends the call
Built(built, cost, stage) ==
    /\ partners' = built.partners
    /\ next_id' = built.next_id
    /\ err' = built.err
    /\ run' = IF built.err # "ok" THEN [run EXCEPT !.stage = 6]
              ELSE [run EXCEPT !.stage = stage, !.step = "added",
                               !.remaining_pv = @ - cost]

\* _build_target_structure(structure, root_id, qualification, strategy) of
\* a build stage and the subtraction of cost that follows it
Build(qualification, cost, stage) ==
    Built(build_target_structure([partners |-> partners, next_id |-> next_id,
                                  err |-> "ok"],
                                 root_id, qualification, run.strategy),
          cost, stage)

\* stage 3 for the targets B3 and TOP: M3 first (optimizer.py:96-98)
OptimizeBuildM3 ==
    /\ run.stage = 2 /\ run.step = "done"
    /\ build_due(run)
    /\ run.target_qualification \in {"B3", "TOP"}
    /\ exact_build("M3", run.strategy)
    /\ Build("M3", requirements_of("M3").min_go, 3)
    /\ UNCHANGED <<now, args, total_pv, history, result>>

\* stage 4, the target after M3 (optimizer.py:111-113), and stage 3 for
\* every other target, built directly (optimizer.py:126-129)
OptimizeBuildTarget ==
    /\ run.step = "done"
    /\ IF run.stage = 2
       THEN build_due(run) /\ run.target_qualification \notin {"B3", "TOP"}
       ELSE run.stage = 3
    /\ exact_build(run.target_qualification, run.strategy)
    /\ Build(run.target_qualification,
             IF run.stage = 3
             THEN requirements_of(run.target_qualification).min_go -
                  requirements_of("M3").min_go
             ELSE requirements_of(run.target_qualification).min_go, 4)
    /\ UNCHANGED <<now, args, total_pv, history, result>>

\* the build stages are over (optimizer.py:142)
builds_over(r) ==
    /\ r.step = "done"
    /\ IF r.stage = 2 THEN ~build_due(r) ELSE r.stage = 4

\* stage 5, the distribution of what is left (optimizer.py:143-144)
OptimizeDistribute ==
    /\ builds_over(run)
    /\ run.remaining_pv > 0
    /\ run.remaining_pv % top_partners(partners, run.strategy) = 0
    /\ partners' = distribute_remaining_pv(partners, run.remaining_pv,
                                           run.strategy, now)
    /\ run' = [run EXCEPT !.stage = 5, !.step = "added",
                          !.distributed = run.remaining_pv]
    /\ err' = "ok"
    /\ UNCHANGED <<next_id, now, args, total_pv, history, result>>

\* the pass of a stage is skipped
Passed_without_pass(passed) ==
    /\ partners' = partners
    /\ err' = "ok"
    /\ run' = [run EXCEPT !.step = "passed"]

\* the tiers are evaluated; an exception of the pass ends the call
Passed(passed) ==
    /\ partners' = passed.partners
    /\ err' = passed.err
    /\ run' = IF passed.err # "ok" THEN [run EXCEPT !.stage = 6]
              ELSE [run EXCEPT !.step = "passed"]

\* structure.update_qualifications() of stages 2 to 5
\* (optimizer.py:78, 99, 114, 130, 145)
OptimizePass ==
    /\ run.stage \in 2..5 /\ run.step = "added"
    /\ Passed(update_from(partners, 0, now))
    /\ UNCHANGED <<next_id, now, args, total_pv, history, result>>

\* the payout that payout_increase of the stage is measured against
payout_base(r) ==
    IF r.stage = 4 /\ r.target_qualification \in {"B3", "TOP"}
    THEN r.m3_payout_increase + r.basic_payout
    ELSE r.basic_payout

\* the metrics dict of the stage r is in
stage_metrics(r, qualification_changes, level_analysis, payout) ==
    CASE r.stage = 2 ->
            [stage |-> "basic structure",
             partners_added |-> r.partners_added,
             pv_per_partner |-> pv_per_partner_of(r.strategy),
             level_analysis |-> level_analysis,
             payout |-> payout]
      [] r.stage \in {3, 4} ->
            [stage |-> IF r.stage = 3 THEN "M3" ELSE r.target_qualification,
             qualification_changes |-> qualification_changes,
             level_analysis |-> level_analysis,
             payout_increase |-> payout - payout_base(r)]
      [] OTHER ->
            [stage |-> "final optimization",
             remaining_pv_distributed |-> r.distributed,
             level_analysis |-> level_analysis,
             final_payout |-> payout]

\* the name of the snapshot of the stage r is in
stage_name(r) ==
    CASE r.stage = 2 -> "Stage 2: basic structure"
      [] r.stage = 3 -> "Stage 3: M3 reached"
      [] r.stage = 4 /\ r.target_qualification \notin {"B3", "TOP"} ->
            "Stage 3: target reached"
      [] r.stage = 4 /\ r.target_qualification \in {"B3", "TOP"} ->
            "Stage 4: target reached"
      [] OTHER -> "Stage 5: final optimization"

\* the payouts later stages are measured against
measured(r, payout) ==
    [r EXCEPT !.step = "done",
              !.basic_payout = IF r.stage = 2 THEN payout ELSE @,
              !.m3_payout_increase =
                    IF r.stage = 3 THEN payout - payout_base(r) ELSE @]

\* the snapshot of the stage, given the level analysis and what
\* calculate_income of the root returned after it
StageSnapshot(qualification_changes, level_analysis, paid) ==
    /\ TakeSnapshot(paid.partners, stage_name(run),
                    stage_metrics(run, qualification_changes, level_analysis,
                                  paid.income.total))
    /\ run' = measured(run, paid.income.total)

Analysed(level_analysis) ==
    \E paid \in {calculate_income(level_analysis.partners, root_id, now)} :
        StageSnapshot(get_qualification_changes(partners),
                      level_analysis.value, paid)

\* the metrics dict of stages 2 to 5 and its create_snapshot
\* (optimizer.py:79-89, 100-109, 115-125, 131-140, 146-155)
OptimizeSnapshot ==
    /\ run.stage \in 2..5 /\ run.step = "passed"
    /\ \E level_analysis \in {analyze_level_progression(partners, now)} :
            Analysed(level_analysis)
    /\ err' = "ok"
    /\ UNCHANGED <<next_id, now, args, total_pv, result>>

\* the call returns OptimizationResult(structure, metrics)
Returned(metrics) ==
    /\ partners' = metrics.partners
    /\ result' = [call |-> "optimize_for_profit", value |-> metrics.metrics]

\* metrics = structure.get_metrics(); return (optimizer.py:157-158)
OptimizeReturn ==
    /\ \/ builds_over(run) /\ run.remaining_pv <= 0
       \/ run.stage = 5 /\ run.step = "done"
    /\ Returned(get_metrics(partners, now))
    /\ run' = [run EXCEPT !.stage = 6]
    /\ err' = "ok"
    /\ UNCHANGED <<next_id, now, args, total_pv, history>>

\* The arguments of optimize_for_profit and the budgets of the tree: the
\* three strategies and one unknown name; targets built directly, through
\* M3, with a zero partner count and one that is not a key of the table;
\* budgets below and above the volumes of the targets.
Strategies == {"balanced", "aggressive", "conservative"}
TargetArgs == {"NONE", "M2", "M3", "B3", "none"}
PartnerArgs == {None, 1, 4}
OptimizeBudgets == {200, 1000, 3550, 3800, 11000}

InitOptimize ==
    /\ partners = put(<<>>, 0, Partner(0, 200, "RU"))
    /\ next_id = 1
    /\ now = 0
    /\ err = "ok"
    /\ args = <<>>
    /\ total_pv \in OptimizeBudgets
    /\ history = <<>>
    /\ result = NoResult
    /\ run = Idle

NextOptimize ==
    \/ \E strategy \in Strategies, target_qualification \in TargetArgs,
          min_partners \in PartnerArgs, max_partners \in PartnerArgs :
            OptimizeStage1(strategy, target_qualification,
                           min_partners, max_partners)
    \/ OptimizeAddPartners
    \/ OptimizeBuildM3
    \/ OptimizeBuildTarget
    \/ OptimizeDistribute
    \/ OptimizePass
    \/ OptimizeSnapshot
    \/ OptimizeReturn

SpecOptimize == InitOptimize /\ [][NextOptimize]_vars

-----------------------------------------------------------------------------
(* The compression ledger of a Partner (structure.py:113-185).  Dates are  *)
(* in days.                                                                *)

days_per_month == 30            \* timedelta(days=30*...)
days_per_year == 365            \* timedelta(days=365)

\* REGIONS[region]['compression_threshold']
compression_threshold ==
    [r \in RegionCodes |-> IF r \in {"UZ", "KG"} THEN 40 ELSE 50]

\* REGIONS[region]['grace_period'], in months
grace_period ==
    [r \in RegionCodes |-> IF r \in {"UZ", "KG"} THEN 3 ELSE 2]

\* COMPRESSION_RULES[rule]['recovery_period'], in months, for the rule the
\* region selects (Partner.get_compression_rule)
recovery_period ==
    [r \in RegionCodes |-> IF r \in {"UZ", "KG"} THEN 4 ELSE 2]

\* COMPRESSION_WARNINGS in the order of the dict
COMPRESSION_WARNINGS ==
    <<[level |-> "CRITICAL", threshold |-> 0, notification_type |-> "immediate"],
      [level |-> "WARNING", threshold |-> 30, notification_type |-> "weekly"],
      [level |-> "NOTICE", threshold |-> 40, notification_type |-> "monthly"]>>

\* RECOVERY_CONDITIONS: period in months
RECOVERY_CONDITIONS ==
    [status \in {"QUICK", "STANDARD", "GRADUAL"} |->
        [period |-> CASE status = "QUICK" -> 1 [] status = "STANDARD" -> 2
                      [] OTHER -> 3,
         required_pv |-> CASE status = "QUICK" -> 100 [] status = "STANDARD" -> 70
                           [] OTHER -> 50,
         bonus_rate |-> recovery_bonus_rates[status]]]

\* the grace test of check_compression_status with the last day of the
\* grace period left out
in_grace_before_last_day(p, date) ==
    /\ p.last_compression_date # None
    /\ date < p.last_compression_date + days_per_month * grace_period[p.region]

\* the grace test of check_compression_status (structure.py:137-140)
in_grace(p, date) ==
    /\ p.last_compression_date # None
    /\ date <= p.last_compression_date + days_per_month * grace_period[p.region]

\* the recovery test of check_compression_status (structure.py:127-132)
recovered_in_time(p, date) ==
    /\ p.recovery_status # "None"
    /\ date <= p.last_compression_date + days_per_month * recovery_period[p.region]
    /\ p.pv >= min_recovery_pv[p.region]

\* the loop over COMPRESSION_WARNINGS from the i-th level on: the first
\* level whose threshold the volume does not exceed, 0 when there is none
RECURSIVE warning_level(_, _)
warning_level(pv, i) ==
    IF i > Len(COMPRESSION_WARNINGS) THEN 0
    ELSE IF pv <= COMPRESSION_WARNINGS[i].threshold THEN i
    ELSE warning_level(pv, i + 1)

\* the body of that loop at the level found: the notification is recorded
\* once per notification type
warned(p, date, i) ==
    LET warning == COMPRESSION_WARNINGS[i]
    IN  IF warning.notification_type \in p.warning_notifications THEN p
        ELSE [p EXCEPT
                !.warning_notifications = @ \cup {warning.notification_type},
                !.compression_warnings = Append(@, <<date, warning.level>>)]

\* check_compression_status() at time date: the partner it leaves and the
\* pair it returns
check_compression_status(p, date) ==
    IF recovered_in_time(p, date)
    THEN [partner |-> [p EXCEPT !.recovery_status = "None"],
          is_compressed |-> FALSE, warning_level |-> "None"]
    ELSE IF p.pv < compression_threshold[p.region] /\ in_grace(p, date)
    THEN [partner |-> p, is_compressed |-> FALSE, warning_level |-> "NOTICE"]
    ELSE IF /\ p.pv < compression_threshold[p.region]
            /\ warning_level(p.pv, 1) # 0
    THEN [partner |-> warned(p, date, warning_level(p.pv, 1)),
          is_compressed |-> TRUE,
          warning_level |-> COMPRESSION_WARNINGS[warning_level(p.pv, 1)].level]
    ELSE [partner |-> [p EXCEPT !.warning_notifications = {}],
          is_compressed |-> FALSE, warning_level |-> "None"]

\* the records of a compression history younger than a year
RECURSIVE younger_than_a_year(_, _)
younger_than_a_year(h, date) ==
    IF h = <<>> THEN <<>>
    ELSE IF Head(h)[1] > date - days_per_year
    THEN <<Head(h)>> \o younger_than_a_year(Tail(h), date)
    ELSE younger_than_a_year(Tail(h), date)

\* what apply_compression does with the status it has read
compressed(status, date) ==
    IF status.is_compressed
    THEN [partner |->
             [status.partner EXCEPT
                !.last_compression_date = date,
                !.recovery_status = "GRADUAL",
                !.compression_history =
                    younger_than_a_year(Append(@, <<date, status.partner.pv>>),
                                        date)],
          value |-> TRUE]
    ELSE [partner |-> status.partner, value |-> FALSE]

\* apply_compression() at time date: the partner it leaves and the value it
\* returns
apply_compression(p, date) == compressed(check_compression_status(p, date), date)

\* try_recovery() at time date
try_recovery(p, date) ==
    IF p.recovery_status = "None" THEN [partner |-> p, value |-> FALSE]
    ELSE IF p.pv >= RECOVERY_CONDITIONS[p.recovery_status].required_pv
    THEN [partner |->
             [p EXCEPT
                !.recovery_bonus_expiry =
                    date + days_per_month *
                           RECOVERY_CONDITIONS[p.recovery_status].period,
                !.recovery_status = "None"],
          value |-> TRUE]
    ELSE [partner |-> p, value |-> FALSE]

-----------------------------------------------------------------------------
(* The clock.                                                              *)

Tick ==
    /\ now < MaxTime
    /\ now' = now + 1
    /\ UNCHANGED <<partners, next_id, err, args, total_pv, history, result, run>>

-----------------------------------------------------------------------------------------------------------------------------------------------------
(* The tree under its public operations.                                   *)

\* NetworkStructure.__init__: the root is added with 200 PV and no upline
Init ==
    /\ partners = put(<<>>, 0, Partner(0, 200, "RU"))
    /\ next_id = 1
    /\ now = 0
    /\ err = "ok"
    /\ args = <<>>
    /\ total_pv = 10000
    /\ history = <<>>
    /\ result = NoResult
    /\ run = Idle

\* the tree grown by add_partner with any upline_id, volumes rewritten
Next ==
    \/ \E pv \in Vols, upline_id \in UplineArgs(MaxPartners) :
          AddPartner(pv, upline_id, MaxPartners)
    \/ \E partner_id \in DOMAIN partners, pv \in Vols : SetPv(partner_id, pv)

Spec == Init /\ [][Next]_vars

\* the same with evaluation passes in between, over a smaller tree
NextPass ==
    \/ \E pv \in Vols, upline_id \in UplineArgs(MaxFamily) :
          AddPartner(pv, upline_id, MaxFamily)
    \/ \E partner_id \in DOMAIN partners, pv \in Vols : SetPv(partner_id, pv)
    \/ UpdateQualifications

SpecPass == Init /\ [][NextPass]_vars

-----------------------------------------------------------------------------
(* A root with one child evaluated month after month: the child's volume   *)
(* is rewritten between passes, which moves the root between NONE and M1.  *)
(* The windows of the histories keep the state space finite.               *)

\* update_qualifications called any number of times
UpdateQualificationsAgain ==
    /\ LET r == update_from(partners, 0, now)
       IN  /\ partners' = r.partners
           /\ err' = r.err
    /\ UNCHANGED <<next_id, now, args, total_pv, history, result, run>>

\* NetworkStructure(10000) followed by add_partner(800, root_id)
InitWindow ==
    LET st == add_partner([partners |-> put(<<>>, 0, Partner(0, 200, "RU")),
                           next_id |-> 1, err |-> "ok"], 800, root_id)
    IN  /\ partners = st.partners
        /\ next_id = st.next_id
        /\ now = 0
        /\ err = "ok"
        /\ args = <<>>
        /\ total_pv = 10000
        /\ history = <<>>
        /\ result = NoResult
        /\ run = Idle

NextWindow ==
    \/ \E partner_id \in DOMAIN partners \ {root_id}, pv \in Vols :
          SetPv(partner_id, pv)
    \/ UpdateQualificationsAgain

SpecWindow == InitWindow /\ [][NextWindow]_vars

-----------------------------------------------------------------------------
(* Starter kits bought by the partners of a small tree, at any time.       *)

\* the kit ids passed to purchase_starter_kit: the four kits and an unknown
\* one
KitArgs == DOMAIN STARTER_KITS \cup {"GOLD"}

NextKit ==
    \/ AddPartner(800, root_id, MaxFamily)
    \/ \E partner_id \in DOMAIN partners, kit_type \in KitArgs :
          PurchaseStarterKit(partner_id, kit_type)
    \/ Tick

SpecKit == Init /\ [][NextKit]_vars

-----------------------------------------------------------------------------
(* The tree with snapshots taken of it: partners added under the root, the *)
(* root's volume raised by its starter kit (app.py:166), passes, income    *)
(* calculations and snapshots.                                             *)

MaxSnapFamily == 2  \* SpecSnap: add_partner stops once next_id reaches this

NextSnap ==
    \/ AddPartner(800, root_id, MaxSnapFamily)
    \/ PurchaseStarterKit(root_id, "START")
    \/ UpdateQualifications
    \/ CalculateIncome(root_id)
    \/ \E snapshot_data \in SnapshotArgs : CreateSnapshot(snapshot_data)

SpecSnap == Init /\ [][NextSnap]_vars

-----------------------------------------------------------------------------
(* The M3 scaffold of the optimizer: the root volume written as the        *)
(* scenario builder writes it (optimizer.py:1731), _build_m3_structure     *)
(* under an existing partner, evaluation passes.                           *)

\* Volumes written to the root: compressed, the constructor's 200, and two
\* that put the group volume past the min_go of B1 and of B2.
RootVols == {49, 200, 2500, 5000}

NextM3 ==
    \/ \E upline_id \in DOMAIN partners : BuildM3Structure(upline_id)
    \/ \E pv \in RootVols : SetPv(root_id, pv)
    \/ UpdateQualifications

SpecM3 == Init /\ [][NextM3]_vars

-----------------------------------------------------------------------------
(* The root over the M3 scaffold, month after month: the volumes of the    *)
(* two 800-children are rewritten between passes, which takes the root out *)
(* of M3 and back, and its income is calculated at any time.               *)

MaxMonths == 3      \* SpecMentor: update_qualifications passes over the scaffold

UpdateQualificationsMonthly ==
    /\ Len(partners[root_id].volume_history) < MaxMonths
    /\ LET r == update_from(partners, 0, now)
       IN  /\ partners' = r.partners
           /\ err' = r.err
    /\ UNCHANGED <<next_id, now, args, total_pv, history, result, run>>

NextMentor ==
    \/ BuildM3Structure(root_id)
    \/ \E partner_id \in {id \in DOMAIN partners : partners[id].pv \in Vols},
          pv \in Vols : SetPv(partner_id, pv)
    \/ UpdateQualificationsMonthly
    \/ CalculateIncome(root_id)

SpecMentor == Init /\ [][NextMentor]_vars

-----------------------------------------------------------------------------
(* One Partner of any region evaluated directly: update_qualification      *)
(* called with aggregates drawn from thresholds of the tier table.         *)

GoArgs == {0, 600, 2400, 5500, 8000, 16000}
ActiveArgs == {0, 4, 6, 8}
SideArgs == {0, 2000, 2500}

Evaluate(go, active_partners, side_volume) ==
    /\ Len(partners[0].qualification_history) < MaxChanges
    /\ partners' = [partners EXCEPT ![0] =
                      update_qualification(@, go, active_partners, side_volume, now)]
    /\ args' = <<go, active_partners, side_volume>>
    /\ err' = "ok"
    /\ UNCHANGED <<next_id, now, total_pv, history, result, run>>

\* Partner(0, 200, region)
InitQual ==
    /\ \E region \in RegionCodes : partners = put(<<>>, 0, Partner(0, 200, region))
    /\ next_id = 1
    /\ now = 0
    /\ err = "ok"
    /\ args = <<>>
    /\ total_pv = 10000
    /\ history = <<>>
    /\ result = NoResult
    /\ run = Idle

NextQual ==
    \/ \E go \in GoArgs, active_partners \in ActiveArgs, side_volume \in SideArgs :
          Evaluate(go, active_partners, side_volume)
    \/ Tick

SpecQual == InitQual /\ [][NextQual]_vars

-----------------------------------------------------------------------------
(* One Partner of any region through its compression ledger: its volume   *)
(* rewritten, apply_compression, try_recovery and check_compression_status *)
(* (app.py:265) called at any time while the clock moves month by month,   *)
(* and its income calculated.                                              *)

MaxLedgerMonths == 4    \* SpecLedger: months the clock moves
MaxWarnings == 2        \* SpecLedger: records of compression_warnings

LedgerVols == {30, 45, 100}

TickMonth ==
    /\ now < days_per_month * MaxLedgerMonths
    /\ now' = now + days_per_month
    /\ UNCHANGED <<partners, next_id, err, args, total_pv, history, result, run>>

\* the call has returned value and left the partner as given
Called(call, partner_id, r) ==
    /\ Len(r.partner.compression_warnings) <= MaxWarnings
    /\ partners' = [partners EXCEPT ![partner_id] = r.partner]
    /\ result' = [call |-> call, partner_id |-> partner_id, value |-> r.value]
    /\ err' = "ok"
    /\ UNCHANGED <<next_id, now, args, total_pv, history, run>>

\* the tuple check_compression_status returns
status_value(status) ==
    [partner |-> status.partner,
     value |-> <<status.is_compressed, status.warning_level>>]

CheckCompressionStatus(partner_id) ==
    /\ partner_id \in DOMAIN partners
    /\ Called("check_compression_status", partner_id,
              status_value(check_compression_status(partners[partner_id], now)))

ApplyCompression(partner_id) ==
    /\ partner_id \in DOMAIN partners
    /\ Called("apply_compression", partner_id,
              apply_compression(partners[partner_id], now))

TryRecovery(partner_id) ==
    /\ partner_id \in DOMAIN partners
    /\ Called("try_recovery", partner_id, try_recovery(partners[partner_id], now))

\* Partner(0, 200, region)
InitLedger == InitQual

NextLedger ==
    \/ \E pv \in LedgerVols : SetPv(root_id, pv)
    \/ CheckCompressionStatus(root_id)
    \/ ApplyCompression(root_id)
    \/ TryRecovery(root_id)
    \/ CalculateIncome(root_id)
    \/ TickMonth

SpecLedger == InitLedger /\ [][NextLedger]_vars

-----------------------------------------------------------------------------
(* A Partner under a recovery program.  apply_compression starts every     *)
(* recovery as 'GRADUAL' (structure.py:161); recovery_status is a public   *)
(* attribute, and try_recovery and get_recovery_bonus_rate look it up in   *)
(* RECOVERY_CONDITIONS, whose keys are QUICK, STANDARD and GRADUAL: the    *)
(* other two programs are adopted by the caller writing the attribute of a *)
(* partner that is in recovery.                                            *)
MaxRecoveryMonths == 4    \* SpecRecovery: months the clock moves

RecoveryVols == {30, 70, 100}

\* partner.recovery_status = program
AdoptRecoveryProgram(partner_id, program) ==
    /\ partner_id \in DOMAIN partners
    /\ partners[partner_id].recovery_status \notin {"None", program}
    /\ partners' = [partners EXCEPT ![partner_id].recovery_status = program]
    /\ err' = "ok"
    /\ UNCHANGED <<next_id, now, args, total_pv, history, result, run>>

\* partner.get_recovery_bonus_rate()
GetRecoveryBonusRate(partner_id) ==
    /\ partner_id \in DOMAIN partners
    /\ result' = [call |-> "get_recovery_bonus_rate", partner_id |-> partner_id,
                  value |-> get_recovery_bonus_rate(partners[partner_id], now)]
    /\ err' = "ok"
    /\ UNCHANGED <<partners, next_id, now, args, total_pv, history, run>>

RecoveryTickMonth ==
    /\ now < days_per_month * MaxRecoveryMonths
    /\ now' = now + days_per_month
    /\ UNCHANGED <<partners, next_id, err, args, total_pv, history, result, run>>

NextRecovery ==
    \/ \E pv \in RecoveryVols : SetPv(root_id, pv)
    \/ ApplyCompression(root_id)
    \/ \E program \in DOMAIN RECOVERY_CONDITIONS :
            AdoptRecoveryProgram(root_id, program)
    \/ TryRecovery(root_id)
    \/ GetRecoveryBonusRate(root_id)
    \/ RecoveryTickMonth

SpecRecovery == InitLedger /\ [][NextRecovery]_vars

-----------------------------------------------------------------------------
(* ScenarioAnalyzer.generate_scenarios and _build_qualification_structure  *)
(* (optimizer.py:1696-1772, 1897-1996).  Every scenario is built in a      *)
(* NetworkStructure of its own; partners and next_id hold the structure of *)
(* the scenario built last, run the position of the call and its list      *)
(* scenarios.  Volumes are whole numbers here: a step that divides a       *)
(* volume is taken where the division has no remainder.                    *)

optimal_personal_pv == 200      \* ScenarioAnalyzer.optimal_personal_pv
m3_partner_pv == 750            \* pv_per_partner of the M3 branch

\* NetworkStructure(total_pv): the root is added with 200
NetworkStructure ==
    [partners |-> put(<<>>, 0, Partner(0, 200, "RU")), next_id |-> 1, err |-> "ok"]

\* structure.partners[structure.root_id].pv = pv
with_root_pv(st, pv) == [st EXCEPT !.partners[root_id].pv = pv]

\* the numbers the branches of _build_qualification_structure start from
qualification_plan(target_qual) ==
    CASE target_qual = "M3" ->
            [required_go |-> 3000, required_side_volume |-> 0,
             required_partners |-> 4, required_m3 |-> 0, side_partners |-> 0]
      [] target_qual = "B3" ->
            [required_go |-> 10000, required_side_volume |-> 1000,
             required_partners |-> 7, required_m3 |-> 3, side_partners |-> 2]
      [] OTHER ->
            [required_go |-> 16000, required_side_volume |-> 1000,
             required_partners |-> 8, required_m3 |-> 5, side_partners |-> 2]

\* for _ in range(count): if remaining_pv >= pv: add_partner(pv, upline_id);
\* remaining_pv -= pv, on b = [st, remaining_pv, exact]
RECURSIVE add_affordable(_, _, _, _)
add_affordable(b, pv, count, upline_id) ==
    IF count = 0 \/ b.st.err # "ok" THEN b
    ELSE IF b.remaining_pv >= pv
    THEN CHOOSE done \in
            {add_affordable(next, pv, count - 1, upline_id) :
                next \in {[b EXCEPT !.st = add_partner(@, pv, upline_id),
                                    !.remaining_pv = @ - pv]}} : TRUE
    ELSE add_affordable(b, pv, count - 1, upline_id)

RECURSIVE build_qualification_structure(_, _, _)
RECURSIVE add_m3_partners(_, _, _, _)

\* the loop over range(required_m3): the partner is added with
\* optimal_personal_pv, which alone is taken from remaining_pv, and the M3
\* branch runs under it with m3_pv - optimal_personal_pv
add_m3_partners(b, m3_pv, count, upline_id) ==
    IF count = 0 \/ b.st.err # "ok" THEN b
    ELSE IF b.remaining_pv >= m3_pv
    THEN CHOOSE done \in
            {add_m3_partners([b EXCEPT !.st = under.st,
                                       !.remaining_pv = @ - optimal_personal_pv],
                             m3_pv, count - 1, upline_id) :
                under \in
                    {build_qualification_structure(
                        [b EXCEPT !.st = add_partner(@, optimal_personal_pv, upline_id),
                                  !.remaining_pv = m3_pv - optimal_personal_pv],
                        b.st.next_id, "M3")}} : TRUE
    ELSE add_m3_partners(b, m3_pv, count - 1, upline_id)

\* the last loop of the B3 and TOP branches: what is left of remaining_pv
\* in equal parts to the remaining_partners
add_remaining_partners(b, remaining_partners, upline_id) ==
    IF remaining_partners > 0
    THEN add_affordable([b EXCEPT !.exact = b.remaining_pv % remaining_partners = 0],
                        b.remaining_pv \div remaining_partners,
                        remaining_partners, upline_id)
    ELSE b

\* the B3 and TOP branches after the side partners
build_over_side(b, plan, upline_id) ==
    add_remaining_partners(
        add_m3_partners(b, (plan.required_go - plan.required_side_volume)
                                \div plan.required_m3,
                        plan.required_m3, upline_id),
        plan.required_partners - plan.side_partners - plan.required_m3,
        upline_id)

\* _build_qualification_structure(structure, upline_id, target_qual,
\* remaining_pv) on b = [st, remaining_pv, exact]
build_qualification_structure(b, upline_id, target_qual) ==
    IF target_qual = "M3"
    THEN add_affordable(b, m3_partner_pv,
                        qualification_plan("M3").required_partners, upline_id)
    ELSE IF target_qual \in {"B3", "TOP"}
    THEN build_over_side(
            add_affordable(b, qualification_plan(target_qual).required_side_volume
                                \div qualification_plan(target_qual).side_partners,
                           qualification_plan(target_qual).side_partners, upline_id),
            qualification_plan(target_qual), upline_id)
    ELSE b

\* analyze_scenario(structure): the pass, then the metrics of the root
analyze_scenario(st, budget, date) ==
    LET r == update_from(st.partners, 0, date)
    IN  [partners |-> r.partners, next_id |-> st.next_id, err |-> r.err,
         metrics |-> IF r.err = "ok" THEN scenario_metrics(r.partners, budget)
                     ELSE <<>>]

\* scenarios.append({'name': ..., 'structure': ..., 'metrics': ...}); an
\* exception ends the call.  The names are those of the five scenarios in
\* English.
ScenarioAppended(name, analysed, stage) ==
    /\ partners' = analysed.partners
    /\ next_id' = analysed.next_id
    /\ err' = analysed.err
    /\ run' = IF analysed.err # "ok" THEN [run EXCEPT !.stage = 6]
              ELSE [stage |-> stage,
                    scenarios |-> Append(run.scenarios,
                                         [name |-> name,
                                          structure |-> analysed.partners,
                                          metrics |-> analysed.metrics])]
    /\ UNCHANGED <<now, args, total_pv, history, result>>

\* scenario 1: the whole volume in the root (optimizer.py:1707-1714)
GenerateAllPersonal ==
    /\ run.stage = 0
    /\ \E analysed \in {analyze_scenario(with_root_pv(NetworkStructure, total_pv),
                                         total_pv, now)} :
            ScenarioAppended("all personal", analysed, 1)

\* optimal_partners of scenario 2
optimal_partners(budget) == Max(1, budget \div optimal_personal_pv)

\* scenario 2: the volume in equal parts over the root and optimal_partners
\* partners (optimizer.py:1716-1727)
GenerateEvenSplit ==
    /\ run.stage = 1
    /\ total_pv % (optimal_partners(total_pv) + 1) = 0
    /\ \E built \in
            {add_partners(with_root_pv(NetworkStructure,
                                       total_pv \div (optimal_partners(total_pv) + 1)),
                          repeated(total_pv \div (optimal_partners(total_pv) + 1),
                                   optimal_partners(total_pv)),
                          1, root_id)} :
        \E analysed \in {analyze_scenario(built, total_pv, now)} :
            ScenarioAppended("even split", analysed, 2)

\* scenarios 3 to 5: the structure of a tier under a root of 200
\* (optimizer.py:1729-1761)
GenerateQualification(target_qual, min_go, stage) ==
    /\ run.stage = stage - 1
    /\ total_pv >= min_go
    /\ \E built \in
            {build_qualification_structure(
                [st |-> with_root_pv(NetworkStructure, optimal_personal_pv),
                 remaining_pv |-> total_pv - optimal_personal_pv,
                 exact |-> TRUE],
                root_id, target_qual)} :
        /\ built.exact
        /\ \E analysed \in {analyze_scenario(built.st, total_pv, now)} :
                ScenarioAppended(target_qual, analysed, stage)

\* the volumes from which scenarios 3, 4 and 5 are built
scenario_min_go == [stage \in 3..5 |-> CASE stage = 3 -> 3000 [] stage = 4 -> 10000
                                         [] OTHER -> 16000]

\* return scenarios (optimizer.py:1763-1772).  total_score, a sum of two
\* fractions, and the order list.sort gives the list by it are not carried:
\* the value is the set of the scenarios.
GenerateReturn ==
    /\ run.stage \in 2..5
    /\ run.stage < 5 => total_pv < scenario_min_go[run.stage + 1]
    /\ result' = [call |-> "generate_scenarios",
                  value |-> {run.scenarios[i] : i \in DOMAIN run.scenarios}]
    /\ run' = [run EXCEPT !.stage = 6]
    /\ err' = "ok"
    /\ UNCHANGED <<partners, next_id, now, args, total_pv, history>>

\* The volumes given to generate_scenarios: below and above the volumes of
\* the three tiers, each a multiple of its optimal_partners + 1 and, from
\* 10000 on, 1800 plus an even number.
ScenarioBudgets ==
    {100, 200, 398, 600, 780, 1002, 1592, 2002, 2388, 2985,
     3008, 3184, 3213, 3402, 5018, 9950,
     10098, 10244, 12078, 15840,
     16038, 16236, 18018, 19800}

InitGenerate ==
    /\ partners = NetworkStructure.partners
    /\ next_id = NetworkStructure.next_id
    /\ now = 0
    /\ err = "ok"
    /\ args = <<>>
    /\ total_pv \in ScenarioBudgets
    /\ history = <<>>
    /\ result = NoResult
    /\ run = [stage |-> 0, scenarios |-> <<>>]

NextGenerate ==
    \/ GenerateAllPersonal
    \/ GenerateEvenSplit
    \/ GenerateQualification("M3", scenario_min_go[3], 3)
    \/ GenerateQualification("B3", scenario_min_go[4], 4)
    \/ GenerateQualification("TOP", scenario_min_go[5], 5)
    \/ GenerateReturn

SpecGenerate == InitGenerate /\ [][NextGenerate]_vars

-----------------------------------------------------------------------------
(* Vocabulary of the properties.                                           *)

Ids == DOMAIN partners

Last(h) == h[Len(h)]

\* calculate_group_volume(partner_id) returns
Returns(partner_id) ==
    ~exceeds_recursion_limit(partners, partner_id, recursion_limit(partners))

\* the partners whose upline reference is partner_id
ChildrenOf(partner_id) == {c \in Ids : partners[c].upline_id = partner_id}

RECURSIVE SumOver(_, _)
SumOver(S, f) ==
    IF S = {} THEN 0
    ELSE LET x == CHOOSE y \in S : TRUE IN f[x] + SumOver(S \ {x}, f)

\* d is partner_id, or d is not compressed and its upline is such a partner:
\* no compressed partner stands between d and partner_id, d included
RECURSIVE Unshielded(_, _, _)
Unshielded(d, partner_id, n) ==
    \/ d = partner_id
    \/ /\ n > 0
       /\ ~is_compressed(partners[d])
       /\ partners[d].upline_id \in Ids \ {d}
       /\ Unshielded(partners[d].upline_id, partner_id, n - 1)

\* the position of a tier in the tier table
Rank(qualification) ==
    CHOOSE i \in 1..Len(QUALIFICATIONS) : QUALIFICATIONS[i].name = qualification

\* a pass of update_qualifications has just appended to partner_id's
\* volume history
Evaluated(partner_id) ==
    /\ partner_id \in Ids
    /\ partner_id \in DOMAIN partners'
    /\ Len(partners'[partner_id].volume_history) =
          Len(partners[partner_id].volume_history) + 1

-----------------------------------------------------------------------------
-----------------------------------------------------------------------------
(* C2: while the single child C of an upline U is below the compression    *)
(* threshold the group volume of U is U's own volume; once C's volume is   *)
(* above the recovery volume, the group volume of U is U's volume plus C's *)
(* group volume, and a pass of update_qualifications records exactly that  *)
(* for U.                                                                  *)
C2_OnlyChild(U, C) ==
    /\ partners[U].downline_ids = <<C>>
    /\ C # U

C2_Shielded ==
    \A U \in Ids, C \in Ids : C2_OnlyChild(U, C) =>
        /\ is_compressed(partners[C]) =>
              calculate_group_volume(partners, U) = partners[U].pv
        /\ partners[C].pv > min_recovery_pv[partners[C].region] =>
              calculate_group_volume(partners, U) =
                 partners[U].pv + calculate_group_volume(partners, C)

C2_PassRecords ==
    \A U \in Ids, C \in Ids : C2_OnlyChild(U, C) /\ Evaluated(U) =>
        /\ is_compressed(partners[C]) =>
              Last(partners'[U].volume_history) =
                 <<current_date, partners[U].pv, partners[U].pv>>
        /\ partners[C].pv > min_recovery_pv[partners[C].region] =>
              Last(partners'[U].volume_history) =
                 <<current_date, partners[U].pv,
                   partners[U].pv + calculate_group_volume(partners, C)>>

C2_CompressionShieldsAndRecovers == []C2_Shielded /\ [][C2_PassRecords]_vars

\* a first pass saw C compressed and recorded U's own volume, C was raised
\* above the recovery volume, and a second pass recorded C's contribution
C2_Witness ==
    \E U \in Ids, C \in Ids :
        /\ C2_OnlyChild(U, C)
        /\ Len(partners[U].volume_history) = 2
        /\ Len(partners[C].volume_history) = 2
        /\ partners[C].volume_history[1][2] < COMPRESSION_THRESHOLD
        /\ partners[U].volume_history[1][3] = partners[U].volume_history[1][2]
        /\ partners[C].pv > min_recovery_pv[partners[C].region]
        /\ partners[U].volume_history[2][3] =
              partners[U].pv + calculate_group_volume(partners, C)

-----------------------------------------------------------------------------
(* C3: in calculate_side_volume a compressed direct child contributes 0 to *)
(* the sum of the branch volumes and to the largest-branch term, as it     *)
(* does in calculate_group_volume and calculate_active_partners.           *)
C3_ShieldedSideVolume(partner_id) ==
    LET ds == partners[partner_id].downline_ids
        volumes == [i \in 1..Len(ds) |->
                      IF is_compressed(partners[ds[i]]) THEN 0
                      ELSE calculate_group_volume(partners, ds[i])]
    IN  IF volumes = <<>> THEN 0 ELSE SeqSum(volumes) - SeqMax(volumes)

C3_SideVolumeSkipsCompressed ==
    \A id \in Ids : ~raises_recursion_error(partners, id) =>
        calculate_side_volume(partners, id) = C3_ShieldedSideVolume(id)

-----------------------------------------------------------------------------
-----------------------------------------------------------------------------
(* C5: update_qualification assigns the highest tier of the table whose    *)
(* min_go (after the region's adjustment), min_partners and side_volume    *)
(* thresholds are all met by the aggregates passed in; the result is a     *)
(* function of those aggregates and the region, whatever tier the partner  *)
(* held before.                                                            *)
C5_MinGo(region, i) ==
    LET name == QUALIFICATIONS[i].name
    IN  IF name \in DOMAIN qualification_adjustments[region]
        THEN qualification_adjustments[region][name]
        ELSE QUALIFICATIONS[i].min_go

C5_Met(region, i, a) ==
    /\ a[1] >= C5_MinGo(region, i)
    /\ a[2] >= QUALIFICATIONS[i].min_partners
    /\ a[3] >= QUALIFICATIONS[i].side_volume

C5_HighestMet(region, a) ==
    CHOOSE i \in 1..Len(QUALIFICATIONS) :
        /\ C5_Met(region, i, a)
        /\ \A j \in (i + 1)..Len(QUALIFICATIONS) : ~C5_Met(region, j, a)

C5_HighestTierMetIsAssigned ==
    args # <<>> =>
        partners[0].qualification =
            QUALIFICATIONS[C5_HighestMet(partners[0].region, args)].name

\* B2 assigned from TOP: the scan passed B1, whose side volume is not met,
\* and did not keep the higher tier held before
C5_Witness ==
    /\ args = <<8000, 6, 2000>>
    /\ partners[0].qualification = "B2"
    /\ Len(partners[0].qualification_history) = 2
    /\ partners[0].qualification_history[1][2] = "TOP"

-----------------------------------------------------------------------------
(* C6: of two successive evaluations of one partner, the second with group *)
(* volume, active-partner count and side volume each at least those of the *)
(* first, the second never assigns a tier lower in the table than the      *)
(* first.                                                                  *)
C6_Step ==
    (/\ args # <<>>
     /\ args' # <<>>
     /\ \A k \in 1..3 : args[k] <= args'[k])
    => Rank(partners'[0].qualification) >= Rank(partners[0].qualification)

C6_QualificationMonotonic == [][C6_Step]_vars

\* a second evaluation with larger aggregates raised the tier
C6_Witness ==
    /\ args = <<16000, 8, 2500>>
    /\ Len(partners[0].qualification_history) = 2
    /\ partners[0].qualification_history[1][2] = "M3"
    /\ partners[0].qualification_history[2][2] = "TOP"

-----------------------------------------------------------------------------
(* C7: a pass of update_qualifications over an upline under which          *)
(* _build_m3_structure has put its four children (800, 800, 700, 700)      *)
(* leaves that upline at M3 with a group volume of its own volume + 3000.  *)
C7_Step ==
    \A U \in Ids :
        (/\ Evaluated(U)
         /\ Len(partners[U].downline_ids) = 4
         /\ \A c \in ChildrenOf(U) : partners[c].downline_ids = <<>>)
        => /\ [i \in 1..4 |-> partners[partners[U].downline_ids[i]].pv] =
                 <<800, 800, 700, 700>>
           /\ partners'[U].qualification = "M3"
           /\ calculate_group_volume(partners', U) = partners'[U].pv + 3000
           /\ Last(partners'[U].volume_history)[3] = partners[U].pv + 3000

C7_M3RoundTrip == [][C7_Step]_vars

\* the fresh tree's root (200) after the scaffold and one pass
C7_Witness ==
    /\ Ids = 0..4
    /\ partners[root_id].pv = 200
    /\ partners[root_id].downline_ids = <<1, 2, 3, 4>>
    /\ partners[root_id].qualification = "M3"
    /\ partners[root_id].volume_history = <<<<current_date, 200, 3200>>>>
    /\ calculate_group_volume(partners, root_id) = 3200

-----------------------------------------------------------------------------
(* C8: an add_partner call that fails on an unknown upline_id leaves the   *)
(* tree unchanged: no record added to the map, no id consumed, no downline *)
(* list changed.                                                           *)
C8_Step ==
    err' = "KeyError" => partners' = partners /\ next_id' = next_id

C8_FailedAddLeavesTreeUnchanged == [][C8_Step]_vars

-----------------------------------------------------------------------------
(* C9: after any sequence of add_partner calls exactly one partner has no  *)
(* upline, every other partner is reachable from the root through downline *)
(* links, and the upline relation has no cycle.                            *)
RECURSIVE C9_Below(_, _)
C9_Below(S, n) ==
    IF n = 0 THEN S
    ELSE C9_Below(S \cup {c \in Ids :
                             \E p \in S :
                                \E i \in 1..Len(partners[p].downline_ids) :
                                    partners[p].downline_ids[i] = c},
                  n - 1)

RECURSIVE C9_UplineChain(_, _)
C9_UplineChain(p, n) ==
    IF n = 0 \/ partners[p].upline_id \notin Ids THEN {}
    ELSE {partners[p].upline_id} \cup C9_UplineChain(partners[p].upline_id, n - 1)

C9_SingleRootConnectedAcyclic ==
    /\ {p \in Ids : partners[p].upline_id = None} = {root_id}
    /\ C9_Below({root_id}, Cardinality(Ids)) = Ids
    /\ \A p \in Ids : p \notin C9_UplineChain(p, Cardinality(Ids))

-----------------------------------------------------------------------------
(* C10: downline_ids is the exact inverse of the upline reference: c       *)
(* occurs in p's downline_ids exactly once when c.upline_id = p and not at *)
(* all otherwise, and every entry of a downline list is a partner.         *)
C10_Occurrences(p, c) ==
    Cardinality({i \in 1..Len(partners[p].downline_ids) :
                    partners[p].downline_ids[i] = c})

C10_DownlineInverseOfUpline ==
    /\ \A p \in Ids, c \in Ids :
          C10_Occurrences(p, c) = IF partners[c].upline_id = p THEN 1 ELSE 0
    /\ \A p \in Ids :
          \A i \in 1..Len(partners[p].downline_ids) :
              partners[p].downline_ids[i] \in Ids

\* two partners attached under the root
C10_Witness ==
    /\ Len(partners[root_id].downline_ids) = 2
    /\ \A c \in Ids \ {root_id} : partners[c].upline_id = root_id

-----------------------------------------------------------------------------
(* C11: the id allocator is monotonic and never reuses an id: every        *)
(* add_partner call, failed ones included, leaves each id that is already  *)
(* bound to a record bound to that same record (only the downline list of  *)
(* the upline grows), and a call that returns hands out an id greater than *)
(* every id bound before.                                                  *)
C11_AddPartnerStep == next_id' # next_id \/ err' = "KeyError"

C11_Step ==
    C11_AddPartnerStep =>
        /\ \A id \in Ids :
              /\ id \in DOMAIN partners'
              /\ [partners'[id] EXCEPT !.downline_ids = partners[id].downline_ids]
                    = partners[id]
        /\ next_id' # next_id => \A id \in Ids : id < next_id

C11_AllocatorNeverReusesAnId == [][C11_Step]_vars

-----------------------------------------------------------------------------
(* C12: the histories are append-only and window-bounded: every step       *)
(* leaves each partner's volume history and qualification history either   *)
(* unchanged or with one record appended at the end, the oldest record     *)
(* dropped if and only if the history already held 12 records, and neither *)
(* history ever holds more than 12 records.                                *)
C12_Push(h, e) ==
    IF Len(h) < WINDOW THEN Append(h, e) ELSE Append(Tail(h), e)

C12_Appended(h, h2) ==
    \/ h2 = h
    \/ h2 # <<>> /\ h2 = C12_Push(h, Last(h2))

\* the step is a pass: no record is added and no volume is rewritten
C12_PassStep ==
    /\ partners' # partners
    /\ DOMAIN partners' = Ids
    /\ \A id \in Ids : partners'[id].pv = partners[id].pv

C12_Step ==
    \A id \in Ids :
        /\ id \in DOMAIN partners'
        /\ Len(partners'[id].volume_history) <= WINDOW
        /\ Len(partners'[id].qualification_history) <= WINDOW
        /\ C12_Appended(partners[id].volume_history,
                        partners'[id].volume_history)
        /\ C12_Appended(partners[id].qualification_history,
                        partners'[id].qualification_history)
        /\ C12_PassStep =>
              partners'[id].volume_history =
                 C12_Push(partners[id].volume_history,
                          <<current_date, partners[id].pv,
                            calculate_group_volume(partners, id)>>)
        /\ partners'[id].qualification # partners[id].qualification =>
              partners'[id].qualification_history =
                 C12_Push(partners[id].qualification_history,
                          <<now, partners'[id].qualification>>)

C12_HistoriesAppendOnlyAndWindowed == [][C12_Step]_vars

\* the root after more than 12 tier changes and more than 12 passes: both
\* histories are full, the first M1 record has left the qualification
\* history and the volume history starts with a pass that saw the child
\* compressed
C12_Witness ==
    /\ Len(partners[root_id].volume_history) = WINDOW
    /\ Len(partners[root_id].qualification_history) = WINDOW
    /\ partners[root_id].qualification_history[1][2] = "NONE"
    /\ Last(partners[root_id].qualification_history)[2] = "M1"
    /\ partners[root_id].volume_history[1][3] = 200
    /\ Last(partners[root_id].volume_history)[3] = 1000

-----------------------------------------------------------------------------
(* C13: snapshots are immutable once appended: every step leaves each      *)
(* snapshot of the history, as get_history reads it (stage name, metrics,  *)
(* partner-state copy, timestamp), what it was, in the same position; the  *)
(* history only grows at its end.                                          *)
C13_Step ==
    LET before == get_history(partners, history)
        after == get_history(partners', history')
    IN  /\ Len(after) >= Len(before)
        /\ \A i \in 1..Len(before) : after[i] = before[i]

C13_SnapshotsImmutable == [][C13_Step]_vars

\* a snapshot taken of the fresh tree, read after a partner was added, the
\* root bought its kit, a pass ran, the root's income was calculated and a
\* second snapshot was taken
C13_Witness ==
    /\ Len(history) = 2
    /\ DOMAIN history[1].partners_state = {root_id}
    /\ to_dict(partners, history[1]).partners_state[root_id].pv = 200
    /\ to_dict(partners, history[1]).partners_state[root_id].downline_ids = <<>>
    /\ to_dict(partners, history[1]).partners_state[root_id].volume_history = <<>>
    /\ history[1].metrics.total_partners = 1
    /\ partners[root_id].downline_ids = <<1>>
    /\ partners[root_id].pv = 270
    /\ partners[root_id].volume_history # <<>>
    /\ result.call = "calculate_income"
    /\ history[2].metrics.total_partners = 2
    /\ history[2].metrics.total_pv = 1070

-----------------------------------------------------------------------------
(* C14: purchase_starter_kit is idempotent: a call with a known kit on a   *)
(* partner that holds no kit returns success, sets the kit, adds the kit's *)
(* volume once and grants exactly its privileges (with the expiry of those *)
(* that have a duration); every other call - a kit already held, or an     *)
(* unknown kit id - returns failure and leaves volume, kit, privileges and *)
(* expiries unchanged.                                                     *)
C14_PurchaseStep ==
    /\ result'.call = "purchase_starter_kit"
    /\ now' = now
    /\ next_id' = next_id

C14_Step ==
    C14_PurchaseStep =>
        LET id == result'.partner_id
            kit_type == result'.kit_type
            p == partners[id]
            q == partners'[id]
        IN  IF kit_type \in DOMAIN STARTER_KITS /\ p.starter_kit = "None"
            THEN LET kit == STARTER_KITS[kit_type]
                     granted == {kit.privileges[i] : i \in 1..Len(kit.privileges)}
                 IN  /\ result'.value = TRUE
                     /\ q.starter_kit = kit_type
                     /\ q.pv = p.pv + kit.pv
                     /\ q.privileges = p.privileges \cup granted
                     /\ DOMAIN q.privilege_expiry =
                           granted \cap {"training_access", "mentorship"}
                     /\ \A privilege \in DOMAIN q.privilege_expiry :
                           q.privilege_expiry[privilege] > now
                     /\ \A other \in Ids \ {id} : partners'[other] = partners[other]
            ELSE /\ result'.value = FALSE
                 /\ partners' = partners

C14_PurchaseStarterKitIdempotent == [][C14_Step]_vars

\* the root bought START (200 + 70), and its later purchase of VIP failed
C14_Witness ==
    /\ partners[root_id].starter_kit = "START"
    /\ partners[root_id].pv = 270
    /\ partners[root_id].privileges = {"personal_discount"}
    /\ result.call = "purchase_starter_kit"
    /\ result.partner_id = root_id
    /\ result.kit_type = "VIP"
    /\ result.value = FALSE

-----------------------------------------------------------------------------
(* C15: for detector results whose risk levels are in [0, 1] the overall   *)
(* vulnerability score is in [0, 1], and it is non-decreasing in each      *)
(* single risk level: raising one detector's risk level with the others    *)
(* fixed never lowers the score.                                           *)
C15_VulnerabilityScoreBoundedMonotonic ==
    /\ result.call = "_calculate_vulnerability_score" =>
          /\ result.value = calculate_vulnerability_score(args)
          /\ result.value >= 0
          /\ result.value <= 10000
    /\ \A d \in Detectors, risk_level \in RiskLevels :
          risk_level >= args[d].risk_level =>
             calculate_vulnerability_score(
                [args EXCEPT ![d].risk_level = risk_level])
             >= calculate_vulnerability_score(args)

\* one finding of the structure detector alone scores 0.3 * 0.15, and
\* raising the qualification detector from 0 to its cap would raise the
\* score by 0.2
C15_Witness ==
    /\ result.call = "_calculate_vulnerability_score"
    /\ args["structure_manipulation"].risk_level = 30
    /\ \A d \in Detectors \ {"structure_manipulation"} : args[d].risk_level = 0
    /\ result.value = 450
    /\ calculate_vulnerability_score(
          [args EXCEPT !["qualification_abuse"].risk_level = 100]) = 2450

-----------------------------------------------------------------------------
(* C16: analyze_scenario on a root that holds the whole budget V >= 200    *)
(* and has no downline returns personal_bonus = 0.10 * V and total_income  *)
(* equal to personal_bonus, with the group, club and partner-count bonuses *)
(* all 0; for V = 10000 the income is 1000.                                *)
C16_Step ==
    (/\ Evaluated(root_id)
     /\ result'.call = "analyze_scenario"
     /\ partners[root_id].downline_ids = <<>>
     /\ partners[root_id].pv = total_pv
     /\ total_pv >= 200)
    => /\ result'.value.personal_bonus = 100 * total_pv
       /\ result'.value.total_income = result'.value.personal_bonus
       /\ result'.value.group_bonus = 0
       /\ result'.value.club_bonus = 0
       /\ result'.value.partner_bonus = 0
       /\ total_pv = 10000 => result'.value.total_income = 1000 * 1000

C16_AllPersonalScenario == [][C16_Step]_vars

\* the scenario for V = 10000 analysed: 1000 units of personal bonus
C16_Witness ==
    /\ total_pv = 10000
    /\ Ids = {root_id}
    /\ partners[root_id].pv = 10000
    /\ partners[root_id].volume_history = <<<<current_date, 10000, 10000>>>>
    /\ result.call = "analyze_scenario"
    /\ result.value.personal_bonus = 1000000
    /\ result.value.total_income = 1000000
    /\ result.value.qualification = "NONE"

-----------------------------------------------------------------------------
(* C17: the mentorship bonus of a milestone tier is paid at most once per  *)
(* partner: a calculate_income result carries a non-zero mentorship bonus  *)
(* only for a tier that is not yet in the partner's granted set, the tier  *)
(* is in the set from then on, and no step removes a tier from the set -   *)
(* so a partner that loses the tier and reaches it again is not paid       *)
(* again.                                                                  *)
C17_Step ==
    /\ \A id \in Ids :
          /\ id \in DOMAIN partners'
          /\ partners[id].mentorship_bonuses_received \subseteq
                partners'[id].mentorship_bonuses_received
    /\ (/\ result' # result
        /\ result'.call = "calculate_income"
        /\ result'.value.mentorship_bonus # 0)
       => LET id == result'.partner_id
              tier == partners[id].qualification
          IN  /\ tier \in DOMAIN MENTORSHIP_BONUSES
              /\ tier \notin partners[id].mentorship_bonuses_received
              /\ tier \in partners'[id].mentorship_bonuses_received
              /\ result'.value.mentorship_bonus =
                    MENTORSHIP_BONUSES[tier] * 1000 *
                    currency_rate[partners[id].region]
    /\ (/\ result' # result
        /\ result'.call = "calculate_income"
        /\ partners[result'.partner_id].qualification \in
              partners[result'.partner_id].mentorship_bonuses_received)
       => result'.value.mentorship_bonus = 0

C17_MentorshipPaidOnce == [][C17_Step]_vars

\* the root was paid for M3, fell to M2, reached M3 again in the third
\* pass, and its income calculated now carries no mentorship bonus
C17_Witness ==
    /\ partners[root_id].qualification = "M3"
    /\ Len(partners[root_id].qualification_history) = 3
    /\ partners[root_id].qualification_history[1][2] = "M3"
    /\ partners[root_id].qualification_history[2][2] = "M2"
    /\ partners[root_id].qualification_history[3][2] = "M3"
    /\ partners[root_id].mentorship_bonuses_received = {"M3"}
    /\ result.call = "calculate_income"
    /\ result.value.mentorship_bonus = 0
    /\ result.value.group_bonus = 3200 * 150 * 35

-----------------------------------------------------------------------------
(* C18: every operation that changes a partner's personal volume, or       *)
(* creates the partner with one, appends the volume-history record in the  *)
(* same operation: after the step the most recent volume-history record of *)
(* that partner holds its current personal volume.                         *)
C18_Step ==
    \A id \in DOMAIN partners' :
        (id \notin Ids \/ partners'[id].pv # partners[id].pv)
        => /\ partners'[id].volume_history # <<>>
           /\ Last(partners'[id].volume_history)[2] = partners'[id].pv

C18_VolumeChangeAppendsHistory == [][C18_Step]_vars

-----------------------------------------------------------------------------
(* C19: in optimize_for_profit, for every strategy, target tier and        *)
(* min_partners/max_partners setting, no stage overshoots the remaining    *)
(* volume: whenever a stage of the call is complete, the sum of all        *)
(* partners' personal volumes is at most the tree's total volume budget    *)
(* (budgets of at least the root's initial 200).                           *)
C19_StagesWithinBudget ==
    (run.stage \in 1..5 /\ run.step = "done" /\ total_pv >= 200)
    => sum_pv(partners, DOMAIN partners) <= total_pv

-----------------------------------------------------------------------------
(* C20: prerequisite-tier counts are part of tier evaluation: when a pass  *)
(* of update_qualifications leaves a partner at a tier whose table entry   *)
(* carries required_m3 (required_b3), at least that many descendants of    *)
(* the partner hold M3 (B3) or a higher tier, before the pass or after it. *)

\* the partners of ps below the partners of S, at most n levels down
RECURSIVE C20_Below(_, _, _)
C20_Below(ps, S, n) ==
    IF n = 0 THEN S
    ELSE C20_Below(ps,
                   S \cup {c \in DOMAIN ps :
                             \E p \in S \cap DOMAIN ps :
                                \E i \in 1..Len(ps[p].downline_ids) :
                                    ps[p].downline_ids[i] = c},
                   n - 1)

\* the number of descendants of id that hold at least the tier
C20_Holders(ps, id, qualification) ==
    Cardinality({d \in C20_Below(ps, {id}, Cardinality(DOMAIN ps)) \ {id} :
                    Rank(ps[d].qualification) >= Rank(qualification)})

C20_Step ==
    \A id \in Ids :
        Evaluated(id) =>
            LET requirements == requirements_of(partners'[id].qualification)
            IN  /\ \/ C20_Holders(partners, id, "M3") >= requirements.required_m3
                   \/ C20_Holders(partners', id, "M3") >= requirements.required_m3
                /\ \/ C20_Holders(partners, id, "B3") >= requirements.required_b3
                   \/ C20_Holders(partners', id, "B3") >= requirements.required_b3

C20_PrerequisiteTiersCounted == [][C20_Step]_vars

-----------------------------------------------------------------------------
(* C21: in calculate_income the recovery bonus is the recovery rate times  *)
(* the sum of the personal, group, club and mentorship amounts, and the    *)
(* reported total is the currency-converted sum of the personal, group     *)
(* (base rate plus growth rate), club, mentorship and recovery amounts,    *)
(* each counted once.                                                      *)

\* the personal, group and club amounts of partner p with group volume go
C21_Amounts(p, go) ==
    (IF p.pv >= 200 THEN p.pv * PERSONAL[200]
     ELSE IF p.pv >= 70 THEN p.pv * PERSONAL[70] ELSE 0) +
    go * ((IF p.qualification \in DOMAIN GROUP THEN GROUP[p.qualification] ELSE 0)
          + get_dynamic_bonus_rate(p)) +
    (IF /\ p.qualification = "M3"
        /\ get_qualification_maintenance_period(p.qualification_history, "M3") >= 3
     THEN go * CLUB["MIDDLE"] ELSE 0) +
    (IF /\ p.qualification \in {"B1", "B2", "B3"}
        /\ get_qualification_maintenance_period(p.qualification_history,
                                                p.qualification) >= 6
     THEN go * (CLUB["BUSINESS"] + CLUB["TRAVEL"]) ELSE 0) +
    (IF /\ p.qualification = "B3"
        /\ get_qualification_maintenance_period(p.qualification_history, "B3") >= 6
     THEN go * CLUB["TOP"] ELSE 0)

\* the mentorship amount the call pays to p
C21_Mentorship(p) ==
    IF /\ p.qualification \in DOMAIN MENTORSHIP_BONUSES
       /\ p.qualification \notin p.mentorship_bonuses_received
    THEN MENTORSHIP_BONUSES[p.qualification] * 1000 ELSE 0

C21_Counted(p, amounts, value, date) ==
    /\ value.recovery_bonus =
          ((amounts * get_recovery_bonus_rate(p, date)) \div 1000) *
          currency_rate[p.region]
    /\ value.total = amounts * currency_rate[p.region] + value.recovery_bonus

C21_Step ==
    (result' # result /\ result'.call = "calculate_income")
    => C21_Counted(partners[result'.partner_id],
                   C21_Amounts(partners[result'.partner_id],
                               calculate_group_volume(partners, result'.partner_id))
                   + C21_Mentorship(partners[result'.partner_id]),
                   result'.value, now)

C21_EachAmountCountedOnce == [][C21_Step]_vars

-----------------------------------------------------------------------------
(* C22: calculate_income is stateless: a call changes no partner and no    *)
(* tree state, and a second call made right after it, with nothing changed *)
(* in between, returns the breakdown the first call returned.              *)
C22_Step ==
    (result' # result /\ result'.call = "calculate_income")
    => /\ partners' = partners
       /\ next_id' = next_id /\ total_pv' = total_pv /\ history' = history
       /\ calculate_income(partners', result'.partner_id, now').income =
             result'.value

C22_IncomeStateless == [][C22_Step]_vars

-----------------------------------------------------------------------------
(* C23: the club bonus unlocks with sustained tier maintenance: an income  *)
(* calculated for a partner that has been at M3 in each of its last three  *)
(* evaluations (or more) carries a club bonus of its group volume times    *)
(* the club rate of M3, which is not 0; an income calculated for an M3     *)
(* partner evaluated fewer than three times carries a club bonus of 0.     *)

\* the number of evaluations at the end of p's volume history that saw the
\* whole M3 scaffold under p, each of which leaves p at M3
RECURSIVE C23_PeriodsAtM3(_, _)
C23_PeriodsAtM3(p, h) ==
    IF h = <<>> \/ Last(h)[3] # p.pv + SeqSum(partner_pvs) THEN 0
    ELSE 1 + C23_PeriodsAtM3(p, SubSeq(h, 1, Len(h) - 1))

C23_Unlocked(p, go, value) ==
    /\ (p.qualification = "M3" /\ C23_PeriodsAtM3(p, p.volume_history) >= 3)
       => /\ value.club_bonus = go * CLUB["MIDDLE"] * currency_rate[p.region]
          /\ value.club_bonus # 0
    /\ (p.qualification = "M3" /\ Len(p.volume_history) < 3)
       => value.club_bonus = 0

C23_Step ==
    (result' # result /\ result'.call = "calculate_income")
    => C23_Unlocked(partners[result'.partner_id],
                    calculate_group_volume(partners, result'.partner_id),
                    result'.value)

C23_ClubBonusUnlocks == [][C23_Step]_vars

-----------------------------------------------------------------------------
(* C24: optimize_for_profit grows the tree in ordered stages: the          *)
(* snapshots of the history carry strictly increasing stage numbers; a     *)
(* step that adds a partner or volume appends no snapshot and starts from  *)
(* the volumes the last snapshot recorded; every snapshot after the first  *)
(* is appended by a step that adds nothing, to a tree in which the pass of *)
(* the stage - one pass per snapshot - has recorded every partner's        *)
(* current volume; and the call returns with every volume snapshotted.     *)

\* the stage number a snapshot name carries
C24_StageNumber(name) ==
    CASE name = "Stage 1: personal sales" -> 1
      [] name = "Stage 2: basic structure" -> 2
      [] name \in {"Stage 3: M3 reached", "Stage 3: target reached"} -> 3
      [] name = "Stage 4: target reached" -> 4
      [] name = "Stage 5: final optimization" -> 5
      [] OTHER -> 0

C24_Ordered ==
    \A i, j \in 1..Len(history) :
        i < j => C24_StageNumber(history[i].stage_name) <
                 C24_StageNumber(history[j].stage_name)

C24_Volumes(ps) == [id \in DOMAIN ps |-> ps[id].pv]

\* the volumes the last snapshot recorded are those of the tree
C24_Snapshotted ==
    /\ history # <<>>
    /\ [id \in DOMAIN Last(history).partners_state |->
            Last(history).partners_state[id].pv] = C24_Volumes(partners)

\* the last pass recorded the current volume of every partner
C24_Evaluated ==
    \A id \in Ids :
        /\ partners[id].volume_history # <<>>
        /\ Last(partners[id].volume_history) =
              <<current_date, partners[id].pv, calculate_group_volume(partners, id)>>

C24_Step ==
    /\ C24_Volumes(partners') # C24_Volumes(partners)
       => history' = history /\ C24_Snapshotted
    /\ (history # <<>> /\ Len(history') = Len(history) + 1)
       => /\ C24_Volumes(partners') = C24_Volumes(partners)
          /\ C24_Evaluated
          /\ Len(partners[root_id].volume_history) = Len(history)
    /\ (run.stage # 6 /\ run'.stage = 6 /\ err' = "ok") => C24_Snapshotted

C24_OrderedStages == []C24_Ordered /\ [][C24_Step]_vars

\* a call that went through all five stages has returned
C24_Witness ==
    /\ run.stage = 6 /\ err = "ok"
    /\ Len(history) = 5
    /\ history[3].stage_name = "Stage 3: M3 reached"
    /\ history[4].stage_name = "Stage 4: target reached"
    /\ history[5].stage_name = "Stage 5: final optimization"
    /\ Len(partners[root_id].volume_history) = 4


-----------------------------------------------------------------------------
(* C25: residual volume goes to the highest-potential partners: when       *)
(* _distribute_remaining_pv has run, every partner whose volume it raised  *)
(* has a potential (calculate_income total with 1000 more volume minus the *)
(* total without) at least that of every partner whose volume it left.     *)

\* the sort keys of _distribute_remaining_pv on the tree it is called with
C25_Potential == potentials(partners, in_key_order(DOMAIN partners), 1, now, <<>>).value

C25_Favoured(potential, receivers) ==
    \A a \in receivers : \A b \in DOMAIN potential \ receivers :
        potential[a] >= potential[b]

C25_Step ==
    (run.stage # 5 /\ run'.stage = 5)
    => C25_Favoured(C25_Potential,
                    {id \in Ids : partners'[id].pv # partners[id].pv})

C25_HighestPotentialReceives == [][C25_Step]_vars


-----------------------------------------------------------------------------
(* C26: apply_compression on a partner whose volume is below the           *)
(* compression threshold of its region, with no grace period active,       *)
(* compresses it: the call returns True, appends the record (now, volume)  *)
(* to compression_history, sets last_compression_date to now and thereby   *)
(* opens the grace period of the region.                                   *)
C26_Compressed(p, after, value, date) ==
    /\ value = TRUE
    /\ after.compression_history = Append(p.compression_history, <<date, p.pv>>)
    /\ after.last_compression_date = date
    /\ in_grace(after, date + days_per_month * grace_period[p.region])
    /\ ~in_grace(after, date + days_per_month * grace_period[p.region] + 1)

C26_Step ==
    (/\ result' # result /\ result'.call = "apply_compression"
     /\ partners[result'.partner_id].pv <
            compression_threshold[partners[result'.partner_id].region]
     /\ ~in_grace(partners[result'.partner_id], now))
    => C26_Compressed(partners[result'.partner_id],
                      partners'[result'.partner_id], result'.value, now)

C26_BelowThresholdCompresses == [][C26_Step]_vars


-----------------------------------------------------------------------------
(* C27: try_recovery on a partner under a recovery program, called within  *)
(* the holding period of the program with the volume the program requires, *)
(* returns True, clears recovery_status and sets the expiry of the bonus   *)
(* one holding period ahead; from then on get_recovery_bonus_rate returns  *)
(* the bonus rate of that program up to the expiry and 0 after it.         *)
C27_Uplifted(program, after, date) ==
    /\ after.recovery_status = "None"
    /\ after.recovery_bonus_expiry =
          date + days_per_month * RECOVERY_CONDITIONS[program].period
    /\ \A later \in date..(after.recovery_bonus_expiry + days_per_month) :
          get_recovery_bonus_rate(after, later) =
              IF later <= after.recovery_bonus_expiry
              THEN RECOVERY_CONDITIONS[program].bonus_rate ELSE 0

C27_Due(p, date) ==
    /\ p.recovery_status # "None"
    /\ p.pv >= RECOVERY_CONDITIONS[p.recovery_status].required_pv
    /\ date <= p.last_compression_date +
               days_per_month * RECOVERY_CONDITIONS[p.recovery_status].period

C27_Step ==
    (/\ result' # result /\ result'.call = "try_recovery"
     /\ C27_Due(partners[result'.partner_id], now))
    => /\ result'.value = TRUE
       /\ C27_Uplifted(partners[result'.partner_id].recovery_status,
                       partners'[result'.partner_id], now)

C27_ProgramRateGranted == [][C27_Step]_vars


-----------------------------------------------------------------------------
(* C28: _distribute_remaining_pv conserves the residual: the step of stage *)
(* 5 that runs it raises the sum of the personal volumes by exactly the    *)
(* residual, raises the volume of min(N, k) partners (k = 3 aggressive, 7  *)
(* conservative, 5 otherwise; N the number of partners) and of no other,   *)
(* and changes no id, no upline, no downline list, no key of the map and   *)
(* not the id allocator.                                                   *)
C28_K(strategy) ==
    CASE strategy = "aggressive" -> 3 [] strategy = "conservative" -> 7
      [] OTHER -> 5

C28_Receivers(before, after) == {id \in DOMAIN before : after[id].pv # before[id].pv}

C28_Conserved(before, after, residual, strategy) ==
    /\ DOMAIN after = DOMAIN before
    /\ sum_pv(after, DOMAIN after) = sum_pv(before, DOMAIN before) + residual
    /\ Cardinality(C28_Receivers(before, after)) =
          Min(Cardinality(DOMAIN before), C28_K(strategy))
    /\ \A id \in DOMAIN before :
          /\ after[id].pv >= before[id].pv
          /\ after[id].id = before[id].id
          /\ after[id].upline_id = before[id].upline_id
          /\ after[id].downline_ids = before[id].downline_ids

C28_Step ==
    (run.stage # 5 /\ run'.stage = 5)
    => /\ C28_Conserved(partners, partners', run.remaining_pv, run.strategy)
       /\ next_id' = next_id

C28_WitnessAll ==
    /\ run.stage = 5 /\ run.step = "added"
    /\ run.distributed > 0
    /\ Cardinality(DOMAIN partners) < C28_K(run.strategy)


-----------------------------------------------------------------------------
(* C29: the compression records of a partner are spaced by the grace       *)
(* period: an apply_compression call made no later than the grace period   *)
(* of the region (60 days RU/KZ, 90 days UZ/KG) after the last compression *)
(* appends no record to compression_history, and any two successive        *)
(* records are more than the grace period apart.                           *)
C29_GraceDays(region) == IF region \in {"UZ", "KG"} THEN 90 ELSE 60

C29_Spaced(p) ==
    \A i \in 1..(Len(p.compression_history) - 1) :
        p.compression_history[i + 1][1] - p.compression_history[i][1] >
            C29_GraceDays(p.region)

C29_Step ==
    \A id \in Ids :
        (/\ partners[id].last_compression_date # None
         /\ now <= partners[id].last_compression_date +
                   C29_GraceDays(partners[id].region))
        => partners'[id].compression_history = partners[id].compression_history

C29_SpacedByGrace ==
    [](\A id \in Ids : C29_Spaced(partners[id])) /\ [][C29_Step]_vars

\* a partner compressed twice
C29_Witness ==
    /\ Len(partners[root_id].compression_history) >= 2
    /\ result = [call |-> "apply_compression", partner_id |-> root_id,
                 value |-> TRUE]


-----------------------------------------------------------------------------
(* C30: every scenario generate_scenarios(V) returns stays within its      *)
(* budget: the personal volumes of the partners of its tree add up to at   *)
(* most V.                                                                 *)

\* the personal volumes of the partners with the ids first..last
RECURSIVE C30_Volume(_, _, _)
C30_Volume(ps, first, last) ==
    IF first > last THEN 0
    ELSE IF first = last THEN ps[first].pv
    ELSE C30_Volume(ps, first, (first + last) \div 2) +
         C30_Volume(ps, (first + last) \div 2 + 1, last)

C30_Spent(scenario) ==
    C30_Volume(scenario.structure, 0, Cardinality(DOMAIN scenario.structure) - 1)

C30_ScenariosWithinBudget ==
    result.call = "generate_scenarios"
    => \A scenario \in result.value : C30_Spent(scenario) <= total_pv

\* what the model gives for V = 10098, as the source does
C30_AsRun ==
    (result.call = "generate_scenarios" /\ total_pv = 10098)
    => {<<s.name, Cardinality(DOMAIN s.structure), C30_Spent(s),
          s.metrics.qualification>> : s \in result.value} =
       {<<"all personal", 1, 10098, "NONE">>, <<"even split", 51, 10098, "B3">>,
        <<"M3", 5, 3200, "M3">>, <<"B3", 17, 16848, "TOP">>}

====
